---- MODULE Spec2Model ----
(***************************************************************************)
(* Category service: the service-level read-through cache of               *)
(* CategoriesService over the injected cache manager, the invalidation     *)
(* fan-out of clearCategoryCache, the CategoriesRepository it reads and    *)
(* writes, and the in-process expiring store CacheService.                 *)
(*                                                                         *)
(* Time is the millisecond clock Date.now().  Strings are TLA+ strings;    *)
(* names that slugify reads character by character are sequences of        *)
(* one-character strings.                                                  *)
(***************************************************************************)
EXTENDS Integers, Sequences, FiniteSets, TLC

VARIABLES
    db,            \* the categories collection: _id -> document
    cacheManager,  \* the store behind CACHE_MANAGER: key -> [value, expiresAt]
    cache,         \* CacheService.cache: key -> [value, expiresAt]
    now,           \* Date.now(), in milliseconds
    ticks,         \* how many times the clock has advanced
    pc,            \* per request slot: the await point the call is suspended at
    op,            \* per request slot: the service method called and its arguments
    local,         \* per request slot: the locals that live across awaits
    result,        \* per request slot: what the call returned or threw
    log,           \* per request slot: the cache and repository calls it made
    started,       \* how many service calls have been made
    last,          \* the last CacheService call and what it returned
    written,       \* per key: the arguments and the time of the latest CacheService.set
    util,          \* the latest call of a utility function or of a repository method made
                   \* on its own, with what it returned
    kafka,         \* per request slot: the message a Kafka handler is serving, and its reply
    http,          \* per request slot: the HTTP request CacheInterceptor is serving
    guard          \* RateLimitGuard: per request slot the canActivate call in flight, and
                   \* per key the admissions and rejections so far

svcVars == <<db, cacheManager, pc, op, local, result, log, started>>
storeVars == <<cache, last, written>>
utilVars == <<util>>
webVars == <<http, guard>>
auxVars == <<util, kafka, http, guard>>
vars == <<db, cacheManager, cache, now, ticks, pc, op, local, result, log, started, last,
          written, util, kafka, http, guard>>

(***************************************************************************)
(* Bounds.                                                                 *)
(***************************************************************************)
MaxRequests == 3
MaxTicks == 1

Procs == {"p1", "p2"}
SlotIndex(p) == IF p = "p1" THEN 1 ELSE 2

(***************************************************************************)
(* Strings and sequences.                                                  *)
(***************************************************************************)
RECURSIVE join(_, _)
join(parts, separator) ==
    IF parts = <<>> THEN ""
    ELSE IF Len(parts) = 1 THEN parts[1]
    ELSE parts[1] \o separator \o join(Tail(parts), separator)

Range(s) == {s[i] : i \in 1..Len(s)}

(***************************************************************************)
(* cache-keys.constants.ts                                                 *)
(***************************************************************************)
CATEGORIES_ALL == "categories:all"
CATEGORIES_BY_ID == "categories:id"
CATEGORIES_BY_SLUG == "categories:slug"
CATEGORIES_BY_GENDER == "categories:gender"
CATEGORIES_WITH_SUBCATEGORIES_NESTED == "categories:with-subcategories"
CATEGORY_STATS == "categories:stats"
CATEGORY_VALIDATION == "categories:validation"
CATEGORIES_WITH_SUBCATEGORIES == "categories:with-subcategories"

(***************************************************************************)
(* CategoriesService.CACHE_TTL, in seconds.                                *)
(***************************************************************************)
CACHE_TTL_LIST == 300
CACHE_TTL_DETAIL == 600
CACHE_TTL_STATS == 900
CACHE_TTL_VALIDATION == 60

(***************************************************************************)
(* cache-key.util.ts: a parameter bag is the sequence of its own           *)
(* properties in insertion order; a value carries its JavaScript type.     *)
(***************************************************************************)
PStr(name, s) == [name |-> name, kind |-> "str", s |-> s, n |-> 0, b |-> FALSE]
PNum(name, n) == [name |-> name, kind |-> "num", s |-> "", n |-> n, b |-> FALSE]
PBool(name, b) == [name |-> name, kind |-> "bool", s |-> "", n |-> 0, b |-> b]
PUndef(name) == [name |-> name, kind |-> "undef", s |-> "", n |-> 0, b |-> FALSE]
PJson(name, s) == [name |-> name, kind |-> "json", s |-> s, n |-> 0, b |-> FALSE]
PNull(name) == [name |-> name, kind |-> "null", s |-> "null", n |-> 0, b |-> FALSE]

NoParams == [given |-> FALSE, bag |-> <<>>]
Params(bag) == [given |-> TRUE, bag |-> bag]

\* String(value), and JSON.stringify for arrays and objects (kept as their text)
String(v) ==
    CASE v.kind = "num" -> ToString(v.n)
      [] v.kind = "bool" -> (IF v.b THEN "true" ELSE "false")
      [] OTHER -> v.s

\* if (x): undefined, null, "", 0 and false are falsy
TruthyParam(v) ==
    CASE v.kind = "undef" -> FALSE
      [] v.kind = "null" -> FALSE
      [] v.kind = "str" -> v.s # ""
      [] v.kind = "num" -> v.n # 0
      [] v.kind = "bool" -> v.b
      [] OTHER -> TRUE

IsNullish_falsy(v) == ~TruthyParam(v)

IsNullish(v) == v.kind \in {"undef", "null"}

\* the last own property called name, or undefined
Prop(bag, name) ==
    LET hits == SelectSeq(bag, LAMBDA e : e.name = name)
    IN IF hits = <<>> THEN PUndef(name) ELSE hits[Len(hits)]

generateCacheKey_sorted(baseKey, params) ==
    IF ~params.given THEN baseKey
    ELSE
      LET prefix == Prop(params.bag, "prefix")
          suffix == Prop(params.bag, "suffix")
          sepArg == Prop(params.bag, "separator")
          separator == IF sepArg.kind = "undef" THEN ":" ELSE String(sepArg)
          names == <<"a", "a:a", "excludeId", "gender", "genders", "id",
                     "includeSubcategories", "limit", "name", "page", "slug", "status">>
          sorted == SelectSeq(names, LAMBDA n : ~IsNullish(Prop(params.bag, n)))
          pairs == [i \in 1..Len(sorted) |->
                        sorted[i] \o separator \o String(Prop(params.bag, sorted[i]))]
          parts == (IF TruthyParam(prefix) THEN <<String(prefix)>> ELSE <<>>)
                   \o <<baseKey>> \o pairs
                   \o (IF TruthyParam(suffix) THEN <<String(suffix)>> ELSE <<>>)
      IN join(parts, separator)

generateCacheKey(baseKey, params) ==
    IF ~params.given THEN baseKey
    ELSE
      LET prefix == Prop(params.bag, "prefix")
          suffix == Prop(params.bag, "suffix")
          sepArg == Prop(params.bag, "separator")
          separator == IF sepArg.kind = "undef" THEN ":" ELSE String(sepArg)
          otherParams ==
              SelectSeq(params.bag,
                        LAMBDA e : e.name \notin {"prefix", "suffix", "separator"})
          kept == SelectSeq(otherParams, LAMBDA e : ~IsNullish(e))
          pairs == [i \in 1..Len(kept) |->
                        kept[i].name \o separator \o String(kept[i])]
          parts == (IF TruthyParam(prefix) THEN <<String(prefix)>> ELSE <<>>)
                   \o <<baseKey>> \o pairs
                   \o (IF TruthyParam(suffix) THEN <<String(suffix)>> ELSE <<>>)
      IN join(parts, separator)

(***************************************************************************)
(* slug.util.ts: slugify with its default options, over the characters the *)
(* model's names are written in.                                           *)
(***************************************************************************)
RemovedChars == {"!", ".", "*"}
NonWordChars == {" ", "-"} \cup RemovedChars

toLowerCase(c) == IF c = "M" THEN "m" ELSE IF c = "K" THEN "k" ELSE c

\* replace(/[\s\W-]+/g, '-'): every run of non-word characters becomes one '-'
RECURSIVE ReplaceRuns(_, _)
ReplaceRuns(s, inRun) ==
    IF s = <<>> THEN <<>>
    ELSE IF s[1] \in NonWordChars
         THEN (IF inRun THEN <<>> ELSE <<"-">>) \o ReplaceRuns(Tail(s), TRUE)
         ELSE <<s[1]>> \o ReplaceRuns(Tail(s), FALSE)

\* replace(/^-+|-+$/g, '')
RECURSIVE StripLeft(_)
StripLeft(s) == IF s # <<>> /\ s[1] = "-" THEN StripLeft(Tail(s)) ELSE s

RECURSIVE StripRight(_)
StripRight(s) ==
    IF s # <<>> /\ s[Len(s)] = "-" THEN StripRight(SubSeq(s, 1, Len(s) - 1)) ELSE s

RECURSIVE Concat(_)
Concat(s) == IF s = <<>> THEN "" ELSE s[1] \o Concat(Tail(s))

slugify(input) ==
    IF input = <<>> THEN ""
    ELSE
      LET removed == SelectSeq(input, LAMBDA c : c \notin RemovedChars)
          dashed == StripRight(StripLeft(ReplaceRuns(removed, FALSE)))
          lowered == [i \in 1..Len(dashed) |-> toLowerCase(dashed[i])]
      IN Concat(lowered)

(***************************************************************************)
(* The values of the model.                                                *)
(***************************************************************************)
Ids == {"i1", "i2", "i3"}          \* the ObjectIds the collection hands out, in order
BadId == "not-an-object-id"        \* Types.ObjectId.isValid(BadId) = false
NameMen == <<"M", "e", "n">>
NameKids == <<"K", "i", "d", "s">>
NameMenBang == <<"M", "e", "n", "!">>   \* another name with the slug of NameMen
NameMen1 == <<"M", "e", "n", "-", "1">>  \* the name with the slug 'men-1'
Null == -1                          \* null, where a timestamp may stand

Undefined == [type |-> "undefined"]
Error(name) == [type |-> "error", error |-> name]
IsError(v) == v.type = "error"

NoDoc == [present |-> FALSE]
Doc(name, genders) ==
    [present |-> TRUE, name |-> name, slug |-> slugify(name), status |-> "active",
     applicableGenders |-> genders, hasSubcategories |-> FALSE, sortOrder |-> 0,
     isDeleted |-> FALSE, deletedAt |-> Null]

IdOrder == <<"i1", "i2", "i3">>
IdIndex(id) == CHOOSE i \in 1..Len(IdOrder) : IdOrder[i] = id

\* Types.ObjectId.isValid
IsValidObjectId(id) == id \in Ids

(***************************************************************************)
(* The cache manager injected as CACHE_MANAGER (CacheModule.register): an  *)
(* exact-key store of values with a time to live, given in seconds.        *)
(***************************************************************************)
CmGet(store, key, t) ==
    IF key \in DOMAIN store /\ store[key].expiresAt > t
    THEN store[key].value
    ELSE Undefined

CmSet(store, key, value, ttl, t) ==
    [k \in DOMAIN store \cup {key} |->
        IF k = key THEN [value |-> value, expiresAt |-> t + ttl * 1000] ELSE store[k]]

CmDel(store, key) == [k \in DOMAIN store \ {key} |-> store[k]]

Truthy_inverted(v) == v.type = "undefined"

\* if (cachedResult): every cached result is an object or an array
Truthy(v) == v.type # "undefined"

(***************************************************************************)
(* CategoriesRepository: the queries, over the documents of db.            *)
(***************************************************************************)
Live(d) == {id \in Ids : d[id].present}
WithId(d, id) == [_id |-> id, doc |-> d[id]]

\* the ids of S ordered by sortOrder, ties in insertion order
RECURSIVE SortBySortOrder(_, _)
SortBySortOrder(d, S) ==
    IF S = {} THEN <<>>
    ELSE LET first == CHOOSE id \in S : \A o \in S :
                          \/ d[id].sortOrder < d[o].sortOrder
                          \/ (d[id].sortOrder = d[o].sortOrder /\ IdIndex(id) <= IdIndex(o))
         IN <<first>> \o SortBySortOrder(d, S \ {first})

Docs(d, idSeq) == [i \in 1..Len(idSeq) |-> WithId(d, idSeq[i])]

\* the first free ObjectId
FreeIds(d) == {id \in Ids : d[id] = NoDoc}
NextId(d) == CHOOSE id \in FreeIds(d) : \A o \in FreeIds(d) : IdIndex(id) <= IdIndex(o)

\* the unique indexes on name and slug (they cover soft-deleted documents too)
DuplicateKey(d, name, slug, exceptId) ==
    \E id \in Live(d) : id # exceptId /\ (d[id].name = name \/ d[id].slug = slug)

repoCreateConflict_nameOnly(d, name) ==
    \E id \in Live(d) : ~d[id].isDeleted /\ d[id].name = name

\* findOne({ $or: [{ name }, { slug }], isDeleted: false })
repoCreateConflict(d, name) ==
    \E id \in Live(d) :
        ~d[id].isDeleted /\ (d[id].name = name \/ d[id].slug = slugify(name))

\* findOne({ slug: newSlug, _id: { $ne: id }, isDeleted: false })
repoUpdateConflict(d, id, name) ==
    \E o \in Live(d) : o # id /\ ~d[o].isDeleted /\ d[o].slug = slugify(name)

repoFindById_withDeleted(d, id) ==
    IF ~IsValidObjectId(id) THEN Error("NotFoundException")
    ELSE IF d[id].present THEN [type |-> "doc", data |-> WithId(d, id)]
    ELSE Error("NotFoundException")

repoFindById(d, id) ==
    IF ~IsValidObjectId(id) THEN Error("NotFoundException")
    ELSE IF d[id].present /\ ~d[id].isDeleted THEN [type |-> "doc", data |-> WithId(d, id)]
    ELSE Error("NotFoundException")

repoFindBySlug(d, slug) ==
    LET hits == {id \in Live(d) : d[id].slug = slug /\ ~d[id].isDeleted}
    IN IF hits = {} THEN Error("NotFoundException")
       ELSE [type |-> "doc", data |-> WithId(d, CHOOSE id \in hits : TRUE)]

\* the filter findAll builds from the query
repoFindAllFilter(d, query) ==
    LET status == Prop(query, "status")
        gender == Prop(query, "gender")
        hasSub == Prop(query, "hasSubcategories")
    IN {id \in Live(d) :
          /\ ~d[id].isDeleted
          /\ (TruthyParam(status) => d[id].status = String(status))
          /\ (TruthyParam(gender) => String(gender) \in d[id].applicableGenders)
          /\ (hasSub.kind # "undef" => d[id].hasSubcategories = hasSub.b)}

Min(a, b) == IF a < b THEN a ELSE b

repoFindAllPage(d, query, total) ==
    LET pageArg == Prop(query, "page")
        limitArg == Prop(query, "limit")
        page == IF pageArg.kind = "undef" THEN 1 ELSE pageArg.n
        limit == IF limitArg.kind = "undef" THEN 10 ELSE limitArg.n
        skip == (page - 1) * limit
        sorted == SortBySortOrder(d, repoFindAllFilter(d, query))
        totalPages == (total + limit - 1) \div limit
    IN [type |-> "page",
        data |-> Docs(d, SubSeq(sorted, skip + 1, Min(Len(sorted), skip + limit))),
        pagination |-> [page |-> page, limit |-> limit, total |-> total,
                        totalPages |-> totalPages, hasNext |-> page < totalPages,
                        hasPrev |-> page > 1]]

repoFindByGender(d, gender) ==
    [type |-> "list",
     data |-> Docs(d, SortBySortOrder(d,
                 {id \in Live(d) : /\ gender \in d[id].applicableGenders
                                   /\ d[id].status = "active"
                                   /\ ~d[id].isDeleted}))]

repoFindWithSubcategories(d) ==
    [type |-> "list",
     data |-> Docs(d, SortBySortOrder(d,
                 {id \in Live(d) : /\ d[id].hasSubcategories
                                   /\ d[id].status = "active"
                                   /\ ~d[id].isDeleted}))]

\* countDocuments(filter), the filter given as the documents it matches
countDocuments(d, matching) == Cardinality({id \in Live(d) : d[id] \in matching})

NotDeleted(d) == {d[id] : id \in {i \in Live(d) : ~d[i].isDeleted}}

repoGetStats(d) ==
    [total |-> countDocuments(d, NotDeleted(d)),
     active |-> countDocuments(d, {x \in NotDeleted(d) : x.status = "active"}),
     inactive |-> countDocuments(d, {x \in NotDeleted(d) : x.status = "inactive"}),
     deleted |-> Cardinality({id \in Live(d) : d[id].isDeleted}),
     withSubcategories |-> countDocuments(d, {x \in NotDeleted(d) : x.hasSubcategories})]

\* getStatusBreakdown, getGenderBreakdown, getRecentlyCreated, getRecentlyUpdated
repoBreakdowns(d) ==
    [byStatus |-> [s \in {"active", "inactive"} |->
                      countDocuments(d, {x \in NotDeleted(d) : x.status = s})],
     byGender |-> [g \in {"men"} |->
                      countDocuments(d, {x \in NotDeleted(d) : g \in x.applicableGenders})],
     recent |-> Docs(d, SortBySortOrder(d, {id \in Live(d) : ~d[id].isDeleted}))]

exists_withDeleted(d, name, slug) ==
    \E id \in Live(d) : d[id].name = name \/ (slug # "" /\ d[id].slug = slug)

\* exists(name, slug?): countDocuments({ isDeleted: false, $or: [{ name }, { slug }?] }) > 0
exists(d, name, slug) ==
    \E id \in Live(d) :
        /\ ~d[id].isDeleted
        /\ (d[id].name = name \/ (slug # "" /\ d[id].slug = slug))

(***************************************************************************)
(* CategoriesService: the calls the model makes.                           *)
(***************************************************************************)
Req(kind, id, name, slug, arg, query) ==
    [kind |-> kind, id |-> id, name |-> name, slug |-> slug, arg |-> arg, query |-> query]

NoReq == Req("none", "", <<>>, "", "", <<>>)

QueryEmpty == <<>>
QueryPage1 == <<PNum("page", 1), PNum("limit", 10)>>

ReadKinds == {"findAll", "findOne", "findBySlug", "findByGender",
              "findWithSubcategories", "getStats", "validateCategory"}
IdMutationKinds == {"update", "remove", "restore", "hardDelete", "updateStatus"}
MutationKinds == IdMutationKinds \cup {"create", "updateSortOrder", "bulkCreate"}

ReadRequests ==
    {Req("findAll", "", <<>>, "", "", q) : q \in {QueryEmpty, QueryPage1}}
    \cup {Req("findOne", id, <<>>, "", "false", <<>>) : id \in {"i1", BadId}}
    \cup {Req("findBySlug", "", <<>>, "men", "false", <<>>)}
    \cup {Req("findByGender", "", <<>>, "", "men", <<>>)}
    \cup {Req("findWithSubcategories", "", <<>>, "", "", <<>>)}
    \cup {Req("getStats", "", <<>>, "", "", <<>>)}
    \cup {Req("validateCategory", ex, NameMen, "men", "", <<>>) : ex \in {""}}

MutationRequests ==
    {Req("create", "", n, "", "", <<>>) : n \in {NameKids, NameMenBang}}
    \cup {Req("update", "i1", n, "", "", <<>>) : n \in {<<>>, NameKids}}
    \cup {Req(k, "i1", <<>>, "", "", <<>>) : k \in {"remove", "restore", "hardDelete"}}
    \cup {Req("updateStatus", "i1", <<>>, "", "inactive", <<>>)}
    \cup {Req(k, BadId, <<>>, "", "", <<>>) : k \in IdMutationKinds}
    \cup {Req("updateSortOrder", id, <<>>, "", "", <<>>) : id \in {"i1", BadId}}
    \cup {Req("bulkCreate", "", <<>>, "", "", <<NameKids, NameMenBang>>)}

Requests == ReadRequests \cup MutationRequests

\* two reads of family-wide views and two mutations that change what they return
RaceRequests ==
    {Req("findWithSubcategories", "", <<>>, "", "", <<>>),
     Req("getStats", "", <<>>, "", "", <<>>),
     Req("update", "i1", <<>>, "", "", <<>>),
     Req("updateStatus", "i1", <<>>, "", "inactive", <<>>)}

\* the calls of validateCategory, and the mutations that change what it finds
ValidateRequests ==
    {Req("validateCategory", ex, n, sl, "", <<>>) :
        ex \in {"", "i1", "i2"}, n \in {NameMen, NameKids}, sl \in {"men", "kids"}}
    \cup {Req("create", "", n, "", "", <<>>) : n \in {NameMen1, NameKids}}
    \cup {Req("remove", "i1", <<>>, "", "", <<>>)}

\* the cache key each read operation builds
CacheKeyOf(r) ==
    CASE r.kind = "findAll" -> generateCacheKey(CATEGORIES_ALL, Params(r.query))
      [] r.kind = "findOne" ->
            generateCacheKey(CATEGORIES_BY_ID,
                Params(<<PStr("id", r.id), PBool("includeSubcategories", r.arg = "true")>>))
      [] r.kind = "findBySlug" ->
            generateCacheKey(CATEGORIES_BY_SLUG,
                Params(<<PStr("slug", r.slug), PBool("includeSubcategories", r.arg = "true")>>))
      [] r.kind = "findByGender" ->
            generateCacheKey(CATEGORIES_BY_GENDER, Params(<<PStr("gender", r.arg)>>))
      [] r.kind = "findWithSubcategories" ->
            generateCacheKey(CATEGORIES_WITH_SUBCATEGORIES_NESTED, NoParams)
      [] r.kind = "getStats" -> generateCacheKey(CATEGORY_STATS, NoParams)
      [] r.kind = "validateCategory" ->
            generateCacheKey(CATEGORY_VALIDATION,
                Params(<<PStr("name", Concat(r.name)), PStr("slug", r.slug),
                         IF r.id = "" THEN PUndef("excludeId") ELSE PStr("excludeId", r.id)>>))
      [] OTHER -> ""

TtlOf_allList(r) == CACHE_TTL_LIST

\* the CACHE_TTL class each read operation stores with
TtlOf(r) ==
    CASE r.kind \in {"findAll", "findByGender", "findWithSubcategories"} -> CACHE_TTL_LIST
      [] r.kind \in {"findOne", "findBySlug"} -> CACHE_TTL_DETAIL
      [] r.kind = "getStats" -> CACHE_TTL_STATS
      [] OTHER -> CACHE_TTL_VALIDATION

mapToResponseDto(x) ==
    [_id |-> x._id, name |-> x.doc.name, slug |-> x.doc.slug, status |-> x.doc.status,
     applicableGenders |-> x.doc.applicableGenders,
     hasSubcategories |-> x.doc.hasSubcategories, sortOrder |-> x.doc.sortOrder,
     isDeleted |-> x.doc.isDeleted, deletedAt |-> x.doc.deletedAt]

MapAll(docs) == [i \in 1..Len(docs) |-> mapToResponseDto(docs[i])]

clearCategoryCacheKeys_slugPattern(categoryId) ==
    {CATEGORIES_ALL, CATEGORY_STATS, CATEGORIES_BY_GENDER, CATEGORIES_WITH_SUBCATEGORIES}
    \cup (IF categoryId # ""
          THEN {CATEGORIES_BY_ID \o ":" \o categoryId}
               \cup {CacheKeyOf(Req("findBySlug", "", <<>>, slug, inc, <<>>)) :
                         slug \in {"men", "kids"}, inc \in {"false", "true"}}
          ELSE {})

clearCategoryCacheKeys_noStats(categoryId) ==
    {CATEGORIES_ALL, CATEGORIES_BY_GENDER, CATEGORIES_WITH_SUBCATEGORIES}
    \cup (IF categoryId # ""
          THEN {CATEGORIES_BY_ID \o ":" \o categoryId, CATEGORIES_BY_SLUG \o ":*"}
          ELSE {})

\* the keys clearCategoryCache deletes
clearCategoryCacheKeys(categoryId) ==
    {CATEGORIES_ALL, CATEGORY_STATS, CATEGORIES_BY_GENDER, CATEGORIES_WITH_SUBCATEGORIES}
    \cup (IF categoryId # ""
          THEN {CATEGORIES_BY_ID \o ":" \o categoryId, CATEGORIES_BY_SLUG \o ":*"}
          ELSE {})

RECURSIVE DelAll(_, _)
DelAll(store, keys) ==
    IF keys = {} THEN store
    ELSE LET k == CHOOSE x \in keys : TRUE IN DelAll(CmDel(store, k), keys \ {k})

\* the categoryId each mutation hands to clearCategoryCache
ClearArg(r) == IF r.kind \in IdMutationKinds THEN r.id ELSE ""

NoLocal == [key |-> "", value |-> Undefined, total |-> 0,
            nameExists |-> FALSE, slugExists |-> FALSE, counter |-> 0]

CacheCall(call, key, ok) == [on |-> "cache", call |-> call, arg |-> key, ok |-> ok]
RepoCall(call, ok) == [on |-> "repo", call |-> call, arg |-> "", ok |-> ok]

(***************************************************************************)
(* The state after construction: one category in the collection, both      *)
(* caches empty, no call in flight.                                        *)
(***************************************************************************)
NoUtil == [call |-> "none"]
NoReply == [sent |-> FALSE]
NoMessage == [handler |-> "none", request |-> NoReq, reply |-> NoReply, calls |-> <<>>]
NoRequest == [phase |-> "none"]
NoGuard == [phase |-> "none"]
NoCall == [call |-> "none", key |-> "", ret |-> [type |-> "undefined", s |-> ""], at |-> 0]

Init ==
    /\ db = [id \in Ids |-> IF id = "i1" THEN Doc(NameMen, {"men"}) ELSE NoDoc]
    /\ cacheManager = <<>>
    /\ cache = <<>>
    /\ now = 0
    /\ ticks = 0
    /\ pc = [p \in Procs |-> "idle"]
    /\ op = [p \in Procs |-> NoReq]
    /\ local = [p \in Procs |-> NoLocal]
    /\ result = [p \in Procs |-> Undefined]
    /\ log = [p \in Procs |-> <<>>]
    /\ started = 0
    /\ last = NoCall
    /\ written = <<>>
    /\ util = NoUtil
    /\ kafka = [p \in Procs |-> NoMessage]
    /\ http = [p \in Procs |-> NoRequest]
    /\ guard = [call |-> [p \in Procs |-> NoGuard], keys |-> <<>>]

\* a call ends: what it returns or throws, with the calls it made so far
Finish(p, value, entry) ==
    /\ pc' = [pc EXCEPT ![p] = "done"]
    /\ result' = [result EXCEPT ![p] = value]
    /\ local' = [local EXCEPT ![p] = NoLocal]
    /\ log' = [log EXCEPT ![p] = log[p] \o entry]

\* a call goes on to its next await
Goto(p, next, loc, entry) ==
    /\ pc' = [pc EXCEPT ![p] = next]
    /\ local' = [local EXCEPT ![p] = loc]
    /\ log' = [log EXCEPT ![p] = log[p] \o entry]
    /\ UNCHANGED result

(***************************************************************************)
(* A service method is called: the code up to its first await.             *)
(***************************************************************************)
Start(p, r) ==
    /\ pc[p] = "idle"
    /\ \A q \in Procs : SlotIndex(q) < SlotIndex(p) => pc[q] # "idle"
    /\ started < MaxRequests
    /\ started' = started + 1
    /\ op' = [op EXCEPT ![p] = r]
    /\ IF r.kind \in IdMutationKinds \cup {"findOne", "updateSortOrder"}
          /\ ~IsValidObjectId(r.id)
       THEN Finish(p, Error("BadRequestException"), <<>>)
       ELSE IF r.kind \in ReadKinds
       THEN Goto(p, "get", [NoLocal EXCEPT !.key = CacheKeyOf(r)], <<>>)
       ELSE IF r.kind = "create" \/ (r.kind = "update" /\ r.name # <<>>)
       THEN Goto(p, "check", NoLocal, <<>>)
       ELSE Goto(p, "write", NoLocal, <<>>)
    /\ UNCHANGED <<db, cacheManager, now, ticks, storeVars, auxVars>>

(***************************************************************************)
(* The read operations: findAll, findOne, findBySlug, findByGender,        *)
(* findWithSubcategories, getStats, validateCategory.                      *)
(***************************************************************************)
Lookup_slidingExpiry(p) ==
    /\ pc[p] = "get"
    /\ LET key == local[p].key
           cachedResult == CmGet(cacheManager, key, now)
       IN IF Truthy(cachedResult)
          THEN /\ Finish(p, cachedResult, <<CacheCall("get", key, TRUE)>>)
               /\ cacheManager' = CmSet(cacheManager, key, cachedResult, TtlOf(op[p]), now)
          ELSE /\ Goto(p, "fetch", local[p], <<CacheCall("get", key, TRUE)>>)
               /\ cacheManager' = cacheManager
    /\ UNCHANGED <<db, now, ticks, op, started, storeVars, auxVars>>

\* const cachedResult = await this.cacheManager.get(cacheKey); if (cachedResult) return
Lookup(p) ==
    /\ pc[p] = "get"
    /\ LET key == local[p].key
           cachedResult == CmGet(cacheManager, key, now)
       IN IF Truthy(cachedResult)
          THEN Finish(p, cachedResult, <<CacheCall("get", key, TRUE)>>)
          ELSE Goto(p, "fetch", local[p], <<CacheCall("get", key, TRUE)>>)
    /\ UNCHANGED <<db, cacheManager, now, ticks, op, started, storeVars, auxVars>>

\* the result validateCategory builds from its existence checks
validateCategoryResult_noExclude(r, nameExists, slugExists, suggestedSlug) ==
    [type |-> "validation",
     nameAvailable |-> ~nameExists,
     slugAvailable |-> ~slugExists,
     suggestedSlug |-> IF ~slugExists THEN "" ELSE suggestedSlug,
     messages |->
         <<IF ~nameExists THEN "Category name is available"
           ELSE "Category name is already in use",
           IF ~slugExists THEN "Category slug is available"
           ELSE "Suggested alternative slug: " \o suggestedSlug>>]

validateCategoryResult(r, nameExists, slugExists, suggestedSlug) ==
    LET excluded == r.id # "" /\ (nameExists \/ slugExists)
        nameAvailable == IF excluded THEN TRUE ELSE ~nameExists
        slugAvailable == IF excluded THEN TRUE ELSE ~slugExists
    IN [type |-> "validation",
        nameAvailable |-> nameAvailable,
        slugAvailable |-> slugAvailable,
        suggestedSlug |-> IF slugAvailable THEN "" ELSE suggestedSlug,
        messages |->
            <<IF nameAvailable THEN "Category name is available"
              ELSE "Category name is already in use",
              IF slugAvailable THEN "Category slug is available"
              ELSE "Suggested alternative slug: " \o suggestedSlug>>]

\* the first repository call of a read operation
Fetch(p) ==
    /\ pc[p] = "fetch"
    /\ LET r == op[p]
           byId == repoFindById(db, r.id)
           bySlug == repoFindBySlug(db, r.slug)
       IN CASE r.kind = "findAll" ->
                 Goto(p, "fetch2",
                      [local[p] EXCEPT !.total = Cardinality(repoFindAllFilter(db, r.query))],
                      <<>>)
            [] r.kind = "findOne" ->
                 IF IsError(byId)
                 THEN Finish(p, byId, <<RepoCall("findById", FALSE)>>)
                 ELSE Goto(p, "set",
                           [local[p] EXCEPT !.value = [type |-> "category",
                                                       data |-> mapToResponseDto(byId.data)]],
                           <<RepoCall("findById", TRUE)>>)
            [] r.kind = "findBySlug" ->
                 IF IsError(bySlug)
                 THEN Finish(p, bySlug, <<RepoCall("findBySlug", FALSE)>>)
                 ELSE Goto(p, "set",
                           [local[p] EXCEPT !.value = [type |-> "category",
                                                       data |-> mapToResponseDto(bySlug.data)]],
                           <<RepoCall("findBySlug", TRUE)>>)
            [] r.kind = "findByGender" ->
                 Goto(p, "set",
                      [local[p] EXCEPT !.value =
                          [type |-> "list", data |-> MapAll(repoFindByGender(db, r.arg).data)]],
                      <<RepoCall("findByGender", TRUE)>>)
            [] r.kind = "findWithSubcategories" ->
                 Goto(p, "set",
                      [local[p] EXCEPT !.value =
                          [type |-> "list", data |-> MapAll(repoFindWithSubcategories(db).data)]],
                      <<RepoCall("findWithSubcategories", TRUE)>>)
            [] r.kind = "getStats" ->
                 Goto(p, "fetch2",
                      [local[p] EXCEPT !.value = [type |-> "basicStats", data |-> repoGetStats(db)]],
                      <<RepoCall("getStats", TRUE)>>)
            [] r.kind = "validateCategory" ->
                 Goto(p, "fetch2",
                      [local[p] EXCEPT !.nameExists = exists(db, r.name, "")],
                      <<RepoCall("exists", TRUE)>>)
    /\ UNCHANGED <<db, cacheManager, now, ticks, op, started, storeVars, auxVars>>

\* the stats object getStats builds
getStatsResult(basicStats, more) ==
    [type |-> "stats",
     total |-> basicStats.total,
     byStatus |-> more.byStatus,
     byGender |-> more.byGender,
     withSubcategories |-> basicStats.withSubcategories,
     withoutSubcategories |-> basicStats.total - basicStats.withSubcategories,
     softDeleted |-> basicStats.deleted,
     recentlyCreated |-> MapAll(more.recent),
     recentlyUpdated |-> MapAll(more.recent)]

\* the second await of findAll (the page), getStats (Promise.all of the four
\* breakdown queries) and validateCategory (exists('', slug))
Fetch2(p) ==
    /\ pc[p] = "fetch2"
    /\ LET r == op[p]
           page == repoFindAllPage(db, r.query, local[p].total)
           slugExists == exists(db, <<>>, r.slug)
           verdict == validateCategoryResult(r, local[p].nameExists, slugExists, "")
       IN CASE r.kind = "findAll" ->
                 Goto(p, "set",
                      [local[p] EXCEPT !.value = [type |-> "page",
                                                  data |-> MapAll(page.data),
                                                  pagination |-> page.pagination]],
                      <<RepoCall("findAll", TRUE)>>)
            [] r.kind = "getStats" ->
                 Goto(p, "set",
                      [local[p] EXCEPT !.value =
                          getStatsResult(local[p].value.data, repoBreakdowns(db))],
                      <<RepoCall("getStatusBreakdown", TRUE), RepoCall("getGenderBreakdown", TRUE),
                        RepoCall("getRecentlyCreated", TRUE), RepoCall("getRecentlyUpdated", TRUE)>>)
            [] r.kind = "validateCategory" ->
                 IF verdict.slugAvailable
                 THEN Goto(p, "set",
                           [local[p] EXCEPT !.slugExists = slugExists, !.value = verdict],
                           <<RepoCall("exists", TRUE)>>)
                 ELSE Goto(p, "suggest",
                           [local[p] EXCEPT !.slugExists = slugExists, !.counter = 1],
                           <<RepoCall("exists", TRUE)>>)
    /\ UNCHANGED <<db, cacheManager, now, ticks, op, started, storeVars, auxVars>>

generateUniqueSlugStep_fromTwo(p) ==
    /\ pc[p] = "suggest"
    /\ LET r == op[p]
           uniqueSlug == r.slug \o "-" \o ToString(local[p].counter + 1)
       IN IF exists(db, <<>>, uniqueSlug)
          THEN Goto(p, "suggest", [local[p] EXCEPT !.counter = @ + 1],
                    <<RepoCall("exists", TRUE)>>)
          ELSE Goto(p, "set",
                    [local[p] EXCEPT !.value =
                        validateCategoryResult(r, local[p].nameExists, local[p].slugExists,
                                               uniqueSlug)],
                    <<RepoCall("exists", TRUE)>>)
    /\ UNCHANGED <<db, cacheManager, now, ticks, op, started, storeVars, auxVars>>

\* generateUniqueSlug: one turn of while (await this.categoriesRepository.exists('', uniqueSlug))
generateUniqueSlugStep(p) ==
    /\ pc[p] = "suggest"
    /\ LET r == op[p]
           uniqueSlug == r.slug \o "-" \o ToString(local[p].counter)
       IN IF exists(db, <<>>, uniqueSlug)
          THEN Goto(p, "suggest", [local[p] EXCEPT !.counter = @ + 1],
                    <<RepoCall("exists", TRUE)>>)
          ELSE Goto(p, "set",
                    [local[p] EXCEPT !.value =
                        validateCategoryResult(r, local[p].nameExists, local[p].slugExists,
                                               uniqueSlug)],
                    <<RepoCall("exists", TRUE)>>)
    /\ UNCHANGED <<db, cacheManager, now, ticks, op, started, storeVars, auxVars>>

Populate_ifAbsent(p) ==
    /\ pc[p] = "set"
    /\ cacheManager' = IF CmGet(cacheManager, local[p].key, now) = Undefined
                       THEN CmSet(cacheManager, local[p].key, local[p].value,
                                  TtlOf(op[p]), now)
                       ELSE cacheManager
    /\ Finish(p, local[p].value, <<CacheCall("set", local[p].key, TRUE)>>)
    /\ UNCHANGED <<db, now, ticks, op, started, storeVars, auxVars>>

\* await this.cacheManager.set(cacheKey, response, ttl); return response
Populate(p) ==
    /\ pc[p] = "set"
    /\ cacheManager' = CmSet(cacheManager, local[p].key, local[p].value, TtlOf(op[p]), now)
    /\ Finish(p, local[p].value, <<CacheCall("set", local[p].key, TRUE)>>)
    /\ UNCHANGED <<db, now, ticks, op, started, storeVars, auxVars>>

(***************************************************************************)
(* The mutations: create, update, remove, restore, hardDelete,             *)
(* updateStatus, updateSortOrder, bulkCreate.                              *)
(***************************************************************************)
Gone == [present |-> FALSE, gone |-> TRUE]       \* a hard-deleted document

\* the repository method a mutation calls
RepoMethod(r) ==
    CASE r.kind = "remove" -> "softDelete"
      [] OTHER -> r.kind

\* create and update with a name: the conflict query that precedes the write
Check(p) ==
    /\ pc[p] = "check"
    /\ LET r == op[p]
           conflict == IF r.kind = "create" THEN repoCreateConflict(db, r.name)
                       ELSE repoUpdateConflict(db, r.id, r.name)
       IN IF conflict
          THEN Finish(p, Error("ConflictException"), <<RepoCall(RepoMethod(r), FALSE)>>)
          ELSE Goto(p, "write", local[p], <<>>)
    /\ UNCHANGED <<db, cacheManager, now, ticks, op, started, storeVars, auxVars>>

\* insertMany, ordered: documents go in until the first duplicate key
RECURSIVE insertMany(_, _)
insertMany(d, names) ==
    IF names = <<>> THEN [db |-> d, ok |-> TRUE]
    ELSE IF DuplicateKey(d, names[1], slugify(names[1]), "")
         THEN [db |-> d, ok |-> FALSE]
         ELSE insertMany([d EXCEPT ![NextId(d)] = Doc(names[1], {"men"})], Tail(names))

\* the write of each repository method: the collection after it, and what it
\* returns or throws
repoWrite(d, r, t) ==
    LET id == r.id
        open == d[id].present /\ ~d[id].isDeleted
        newId == NextId(d)
        bulk == insertMany(d, r.query)
        after ==
            CASE r.kind = "create" -> [d EXCEPT ![newId] = Doc(r.name, {"men"})]
              [] r.kind = "update" /\ r.name # <<>> ->
                    [d EXCEPT ![id].name = r.name, ![id].slug = slugify(r.name)]
              [] r.kind = "update" -> [d EXCEPT ![id].hasSubcategories = TRUE]
              [] r.kind = "remove" -> [d EXCEPT ![id].isDeleted = TRUE, ![id].deletedAt = t]
              [] r.kind = "restore" -> [d EXCEPT ![id].isDeleted = FALSE, ![id].deletedAt = Null]
              [] r.kind = "hardDelete" -> [d EXCEPT ![id] = Gone]
              [] r.kind = "updateStatus" -> [d EXCEPT ![id].status = r.arg]
              [] r.kind = "updateSortOrder" ->
                    IF open THEN [d EXCEPT ![id].sortOrder = 1] ELSE d
              [] r.kind = "bulkCreate" -> bulk.db
        error ==
            CASE r.kind = "create" ->
                    IF DuplicateKey(d, r.name, slugify(r.name), "") THEN "MongoError" ELSE ""
              [] r.kind = "update" ->
                    IF ~open THEN "NotFoundException"
                    ELSE IF r.name # <<>> /\ DuplicateKey(d, r.name, slugify(r.name), id)
                    THEN "MongoError" ELSE ""
              [] r.kind \in {"remove", "updateStatus"} ->
                    IF open THEN "" ELSE "NotFoundException"
              [] r.kind = "restore" ->
                    IF d[id].present /\ d[id].isDeleted THEN "" ELSE "NotFoundException"
              [] r.kind = "hardDelete" -> IF d[id].present THEN "" ELSE "NotFoundException"
              [] r.kind = "updateSortOrder" -> ""
              [] r.kind = "bulkCreate" -> IF bulk.ok THEN "" ELSE "MongoError"
        written_ ==
            CASE r.kind = "create" -> [type |-> "category", data |-> mapToResponseDto(WithId(after, newId))]
              [] r.kind \in {"update", "restore", "updateStatus"} ->
                    [type |-> "category", data |-> mapToResponseDto(WithId(after, id))]
              [] r.kind = "remove" -> [type |-> "message", message |-> "Category deleted successfully"]
              [] r.kind = "hardDelete" -> [type |-> "message", message |-> "Category permanently deleted"]
              [] r.kind = "updateSortOrder" ->
                    [type |-> "message", message |-> "Sort order updated successfully"]
              [] r.kind = "bulkCreate" ->
                    [type |-> "list",
                     data |-> MapAll(Docs(after, SelectSeq(IdOrder, LAMBDA i : d[i] = NoDoc /\ after[i].present)))]
    IN IF error # ""
       THEN [db |-> IF r.kind = "bulkCreate" THEN bulk.db ELSE d, ok |-> FALSE,
             value |-> Error(error)]
       ELSE [db |-> after, ok |-> TRUE, value |-> written_]

\* the ObjectIds a write needs from the collection
IdsNeeded(r) ==
    CASE r.kind = "create" -> 1
      [] r.kind = "bulkCreate" -> Len(r.query)
      [] OTHER -> 0

Write_clearsAnyway(p) ==
    /\ pc[p] = "write"
    /\ Cardinality(FreeIds(db)) >= IdsNeeded(op[p])
    /\ LET w == repoWrite(db, op[p], now)
       IN /\ db' = w.db
          /\ Goto(p, "clear", [local[p] EXCEPT !.value = w.value],
                  <<RepoCall(RepoMethod(op[p]), w.ok)>>)
    /\ UNCHANGED <<cacheManager, now, ticks, op, started, storeVars, auxVars>>

\* await this.categoriesRepository.<write>(...)
Write(p) ==
    /\ pc[p] = "write"
    /\ Cardinality(FreeIds(db)) >= IdsNeeded(op[p])
    /\ LET w == repoWrite(db, op[p], now)
       IN /\ db' = w.db
          /\ IF w.ok
             THEN Goto(p, "clear", [local[p] EXCEPT !.value = w.value],
                       <<RepoCall(RepoMethod(op[p]), TRUE)>>)
             ELSE Finish(p, w.value, <<RepoCall(RepoMethod(op[p]), FALSE)>>)
    /\ UNCHANGED <<cacheManager, now, ticks, op, started, storeVars, auxVars>>

clearCategoryCache_bothStores(p) ==
    /\ pc[p] = "clear"
    /\ cacheManager' = DelAll(cacheManager, clearCategoryCacheKeys(ClearArg(op[p])))
    /\ cache' = <<>>
    /\ Finish(p, local[p].value, <<CacheCall("clear", ClearArg(op[p]), TRUE)>>)
    /\ UNCHANGED <<db, now, ticks, op, started, last, written, auxVars>>

\* await this.clearCategoryCache(id?); return the response
clearCategoryCache(p) ==
    /\ pc[p] = "clear"
    /\ cacheManager' = DelAll(cacheManager, clearCategoryCacheKeys(ClearArg(op[p])))
    /\ Finish(p, local[p].value, <<CacheCall("clear", ClearArg(op[p]), TRUE)>>)
    /\ UNCHANGED <<db, now, ticks, op, started, storeVars, auxVars>>

\* any repository query can fail (the database is unreachable): the error is thrown
RepoCallName(p) ==
    CASE op[p].kind \in MutationKinds -> RepoMethod(op[p])
      [] op[p].kind = "findOne" -> "findById"
      [] op[p].kind = "validateCategory" -> "exists"
      [] op[p].kind = "getStats" /\ pc[p] = "fetch2" -> "getStatusBreakdown"
      [] OTHER -> op[p].kind

RepoFail_cachesError(p) ==
    /\ pc[p] \in {"fetch", "fetch2", "suggest", "check", "write"}
    /\ cacheManager' = IF op[p].kind \in ReadKinds
                       THEN CmSet(cacheManager, local[p].key, Error("MongoError"),
                                  TtlOf(op[p]), now)
                       ELSE cacheManager
    /\ Finish(p, Error("MongoError"), <<RepoCall(RepoCallName(p), FALSE)>>)
    /\ UNCHANGED <<db, now, ticks, op, started, storeVars, auxVars>>

RepoFail(p) ==
    /\ pc[p] \in {"fetch", "fetch2", "suggest", "check", "write"}
    /\ Finish(p, Error("MongoError"), <<RepoCall(RepoCallName(p), FALSE)>>)
    /\ UNCHANGED <<db, cacheManager, now, ticks, op, started, storeVars, auxVars>>

\* the caller has its answer; the slot is free for the next call
Return(p) ==
    /\ pc[p] = "done"
    /\ pc' = [pc EXCEPT ![p] = "idle"]
    /\ op' = [op EXCEPT ![p] = NoReq]
    /\ result' = [result EXCEPT ![p] = Undefined]
    /\ log' = [log EXCEPT ![p] = <<>>]
    /\ UNCHANGED <<db, cacheManager, now, ticks, local, started, storeVars, auxVars>>

\* time passes
TickSteps == {CACHE_TTL_LIST * 1000}
RaceTickSteps == {CACHE_TTL_LIST * 500, CACHE_TTL_LIST * 1000, CACHE_TTL_STATS * 1000}

Tick(d) ==
    /\ ticks < MaxTicks
    /\ ticks' = ticks + 1
    /\ now' = now + d
    /\ UNCHANGED <<svcVars, storeVars, auxVars>>

(***************************************************************************)
(* The cache manager can fail: a get, a set or a del rejects.              *)
(***************************************************************************)
\* await this.cacheManager.get(cacheKey) rejects: the catch block logs and rethrows
LookupFails(p) ==
    /\ pc[p] = "get"
    /\ Finish(p, Error("CacheError"), <<CacheCall("get", local[p].key, FALSE)>>)
    /\ UNCHANGED <<db, cacheManager, now, ticks, op, started, storeVars, auxVars>>

\* await this.cacheManager.set(...) rejects: the catch block logs and rethrows
PopulateFails(p) ==
    /\ pc[p] = "set"
    /\ Finish(p, Error("CacheError"), <<CacheCall("set", local[p].key, FALSE)>>)
    /\ UNCHANGED <<db, cacheManager, now, ticks, op, started, storeVars, auxVars>>

RECURSIVE DelFailures(_)
DelFailures(keys) ==
    IF keys = {} THEN <<>>
    ELSE LET k == CHOOSE x \in keys : TRUE
         IN <<CacheCall("del", k, FALSE)>> \o DelFailures(keys \ {k})

clearCategoryCacheSettled_all(p, failed) ==
    /\ cacheManager' = DelAll(cacheManager, clearCategoryCacheKeys(ClearArg(op[p])) \ failed)
    /\ Finish(p, Error("CacheError"),
              DelFailures(failed) \o <<CacheCall("clear", ClearArg(op[p]), TRUE)>>)

\* what clearCategoryCache does when the dels of the keys in failed reject:
\* Promise.allSettled waits for every del and never rejects
clearCategoryCacheSettled(p, failed) ==
    /\ cacheManager' = DelAll(cacheManager, clearCategoryCacheKeys(ClearArg(op[p])) \ failed)
    /\ Finish(p, local[p].value,
              DelFailures(failed) \o <<CacheCall("clear", ClearArg(op[p]), TRUE)>>)

clearCategoryCacheDelFails(p) ==
    /\ pc[p] = "clear"
    /\ \E failed \in SUBSET clearCategoryCacheKeys(ClearArg(op[p])) :
          /\ failed # {}
          /\ clearCategoryCacheSettled(p, failed)
    /\ UNCHANGED <<db, now, ticks, op, started, storeVars, auxVars>>

(***************************************************************************)
(* CacheService: the in-process expiring store.                            *)
(***************************************************************************)
StoreKeys == {"k1", "k2"}
StoreValues == {"", "v"}
StoreTtls == {-1, 0, 1, 2}
StoreTickSteps == {1000}

StoreUndefined == [type |-> "undefined", s |-> ""]
StoreString(s) == [type |-> "string", s |-> s]

CacheServiceGet_inclusive(store, key, t) ==
    IF key \in DOMAIN store /\ store[key].expiresAt >= t
    THEN [ret |-> StoreString(store[key].value), cache |-> store]
    ELSE [ret |-> StoreUndefined, cache |-> [k \in DOMAIN store \ {key} |-> store[k]]]

\* get(key): the value returned and the map afterwards
CacheServiceGet(store, key, t) ==
    IF key \in DOMAIN store /\ store[key].expiresAt > t
    THEN [ret |-> StoreString(store[key].value), cache |-> store]
    ELSE [ret |-> StoreUndefined, cache |-> [k \in DOMAIN store \ {key} |-> store[k]]]

CacheServiceSet_clamped(store, key, value, ttlSeconds, t) ==
    [k \in DOMAIN store \cup {key} |->
        IF k = key
        THEN [value |-> value,
              expiresAt |-> t + (IF ttlSeconds <= 0 THEN 1 ELSE ttlSeconds) * 1000]
        ELSE store[k]]

\* set(key, value, ttlSeconds): the map afterwards
CacheServiceSet(store, key, value, ttlSeconds, t) ==
    [k \in DOMAIN store \cup {key} |->
        IF k = key THEN [value |-> value, expiresAt |-> t + ttlSeconds * 1000] ELSE store[k]]

StoreGet(key) ==
    /\ LET got == CacheServiceGet(cache, key, now)
       IN /\ cache' = got.cache
          /\ last' = [call |-> "get", key |-> key, ret |-> got.ret, at |-> now]
    /\ UNCHANGED <<svcVars, now, ticks, written, auxVars>>

StoreSet(key, value, ttlSeconds) ==
    /\ cache' = CacheServiceSet(cache, key, value, ttlSeconds, now)
    /\ last' = [call |-> "set", key |-> key, ret |-> StoreUndefined, at |-> now]
    /\ written' = [k \in DOMAIN written \cup {key} |->
                      IF k = key THEN [value |-> value, ttl |-> ttlSeconds, at |-> now]
                      ELSE written[k]]
    /\ UNCHANGED <<svcVars, now, ticks, auxVars>>

(***************************************************************************)
(* CategoriesKafkaController: each handler reads its payload, awaits the   *)
(* service method inside a try block, and returns an envelope from the try *)
(* or from the catch.  An error stands for its message.                    *)
(***************************************************************************)
\* the message of each handler's envelope
KafkaMessage(kind, ok) ==
    CASE kind = "create" ->
            IF ok THEN "Category created successfully" ELSE "Failed to create category"
      [] kind = "findAll" ->
            IF ok THEN "Categories retrieved successfully" ELSE "Failed to retrieve categories"
      [] kind \in {"findOne", "findBySlug"} ->
            IF ok THEN "Category retrieved successfully" ELSE "Failed to retrieve category"
      [] kind = "update" ->
            IF ok THEN "Category updated successfully" ELSE "Failed to update category"
      [] kind = "remove" ->
            IF ok THEN "Category deleted successfully" ELSE "Failed to delete category"
      [] kind = "restore" ->
            IF ok THEN "Category restored successfully" ELSE "Failed to restore category"
      [] kind = "hardDelete" ->
            IF ok THEN "Category permanently deleted"
            ELSE "Failed to permanently delete category"
      [] kind = "updateStatus" ->
            IF ok THEN "Category status updated successfully"
            ELSE "Failed to update category status"
      [] kind = "updateSortOrder" ->
            IF ok THEN "Category sort order updated successfully"
            ELSE "Failed to update category sort order"
      [] kind = "findByGender" ->
            IF ok THEN "Categories retrieved successfully"
            ELSE "Failed to retrieve categories by gender"
      [] kind = "findWithSubcategories" ->
            IF ok THEN "Categories with subcategories retrieved successfully"
            ELSE "Failed to retrieve categories with subcategories"
      [] kind = "bulkCreate" ->
            IF ok THEN "Categories bulk created successfully"
            ELSE "Failed to bulk create categories"
      [] kind = "getStats" ->
            IF ok THEN "Category statistics retrieved successfully"
            ELSE "Failed to retrieve category statistics"
      [] OTHER ->
            IF ok THEN "Category validation completed" ELSE "Failed to validate category"

\* return { success: true, data: result, message }
KafkaSuccess(kind, data) ==
    [sent |-> TRUE, thrown |-> FALSE,
     envelope |-> [success |-> TRUE, data |-> data, message |-> KafkaMessage(kind, TRUE)]]

\* catch (error) { return { success: false, error: error.message, message } }
KafkaFailure(kind, error) ==
    [sent |-> TRUE, thrown |-> FALSE,
     envelope |-> [success |-> FALSE, error |-> error.error,
                   message |-> KafkaMessage(kind, FALSE)]]

\* the handlers that take their arguments out of the payload
KafkaDestructuring == MutationKinds \cup {"findOne", "findBySlug", "findByGender",
                                         "validateCategory"}

KafkaIdle(p) == pc[p] = "idle" /\ (kafka[p].handler = "none" \/ kafka[p].reply.sent)

\* a message arrives and its handler starts
KafkaReceive(p, r) ==
    /\ KafkaIdle(p)
    /\ started < MaxRequests
    /\ kafka' = [kafka EXCEPT ![p] = [handler |-> r.kind, request |-> r,
                                      reply |-> NoReply, calls |-> <<>>]]
    /\ UNCHANGED <<svcVars, storeVars, now, ticks, util, webVars>>

\* a message without a payload: const { ... } = data throws inside the try
KafkaReceiveMalformed(p, kind) ==
    /\ KafkaIdle(p)
    /\ started < MaxRequests
    /\ kind \in KafkaDestructuring
    /\ started' = started + 1
    /\ kafka' = [kafka EXCEPT ![p] = [handler |-> kind, request |-> NoReq,
                                      reply |-> KafkaFailure(kind, Error("TypeError")),
                                      calls |-> <<>>]]
    /\ UNCHANGED <<db, cacheManager, pc, op, local, result, log, storeVars, now, ticks, util, webVars>>

\* const result = await this.categoriesService.<method>(...)
KafkaCall(p) ==
    /\ kafka[p].handler # "none"
    /\ ~kafka[p].reply.sent
    /\ Start(p, kafka[p].request)

KafkaReply_rethrows(p) ==
    /\ kafka[p].handler # "none"
    /\ ~kafka[p].reply.sent
    /\ pc[p] = "done"
    /\ kafka' = [kafka EXCEPT ![p].calls = log[p],
                              ![p].reply =
                                  IF IsError(result[p])
                                  THEN [sent |-> TRUE, thrown |-> TRUE, error |-> result[p]]
                                  ELSE KafkaSuccess(kafka[p].handler, result[p])]
    /\ pc' = [pc EXCEPT ![p] = "idle"]
    /\ op' = [op EXCEPT ![p] = NoReq]
    /\ result' = [result EXCEPT ![p] = Undefined]
    /\ log' = [log EXCEPT ![p] = <<>>]
    /\ UNCHANGED <<db, cacheManager, now, ticks, local, started, storeVars, util, webVars>>

\* the service call has settled: the envelope of the try or of the catch
KafkaReply(p) ==
    /\ kafka[p].handler # "none"
    /\ ~kafka[p].reply.sent
    /\ pc[p] = "done"
    /\ kafka' = [kafka EXCEPT ![p].calls = log[p],
                              ![p].reply =
                                  IF IsError(result[p])
                                  THEN KafkaFailure(kafka[p].handler, result[p])
                                  ELSE KafkaSuccess(kafka[p].handler, result[p])]
    /\ pc' = [pc EXCEPT ![p] = "idle"]
    /\ op' = [op EXCEPT ![p] = NoReq]
    /\ result' = [result EXCEPT ![p] = Undefined]
    /\ log' = [log EXCEPT ![p] = <<>>]
    /\ UNCHANGED <<db, cacheManager, now, ticks, local, started, storeVars, util, webVars>>

(***************************************************************************)
(* generateCacheKey called on its own: a call with a base key and a        *)
(* parameter bag, and then the call again with the bag's properties        *)
(* inserted in another order (or in the same order).                       *)
(***************************************************************************)
MaxParams == 2

KeyBases == {CATEGORIES_ALL, CATEGORIES_BY_ID}

KeyEntries ==
    {PNum("page", 1), PNum("page", 2), PNum("limit", 10), PNum("limit", 0),
     PStr("status", "active"), PBool("includeSubcategories", FALSE),
     PUndef("excludeId"), PNull("gender"), PJson("genders", "[\"men\"]"),
     PStr("prefix", "v1"), PStr("prefix", ""), PStr("suffix", "end"),
     PStr("separator", "/"), PStr("a", "a:a"), PStr("a:a", "a")}

KeyBags ==
    {bag \in UNION {[1..n -> KeyEntries] : n \in 0..MaxParams} :
        \A i, j \in 1..Len(bag) : bag[i].name = bag[j].name => i = j}

KeyParams == {NoParams} \cup {Params(bag) : bag \in KeyBags}

Perms(n) == {f \in [1..n -> 1..n] : \A i, j \in 1..n : f[i] = f[j] => i = j}

Reorder(bag, f) == [i \in 1..Len(bag) |-> bag[f[i]]]

BuildKey(baseKey, params) ==
    /\ util = NoUtil
    /\ util' = [call |-> "generateCacheKey", baseKey |-> baseKey, params |-> params,
                key |-> generateCacheKey(baseKey, params),
                again |-> FALSE, prevParams |-> NoParams, prevKey |-> ""]
    /\ UNCHANGED <<svcVars, storeVars, now, ticks, kafka, webVars>>

BuildKeyAgain(f) ==
    /\ util.call = "generateCacheKey"
    /\ ~util.again
    /\ Len(f) = Len(util.params.bag)
    /\ LET params == IF util.params.given THEN Params(Reorder(util.params.bag, f))
                     ELSE NoParams
       IN util' = [call |-> "generateCacheKey", baseKey |-> util.baseKey,
                   params |-> params,
                   key |-> generateCacheKey(util.baseKey, params),
                   again |-> TRUE, prevParams |-> util.params, prevKey |-> util.key]
    /\ UNCHANGED <<svcVars, storeVars, now, ticks, kafka, webVars>>

(***************************************************************************)
(* The specifications.  Spec: one client calls the service, one call after *)
(* the other, over a reliable cache manager.  SpecFault: the same, and the *)
(* cache manager can fail.  SpecStore: calls of CacheService.              *)
(***************************************************************************)
Clients == {"p1"}

Next ==
    \/ \E p \in Clients, r \in Requests : Start(p, r)
    \/ \E p \in Clients : Lookup(p)
    \/ \E p \in Clients : Fetch(p)
    \/ \E p \in Clients : Fetch2(p)
    \/ \E p \in Clients : generateUniqueSlugStep(p)
    \/ \E p \in Clients : Populate(p)
    \/ \E p \in Clients : Check(p)
    \/ \E p \in Clients : Write(p)
    \/ \E p \in Clients : clearCategoryCache(p)
    \/ \E p \in Clients : RepoFail(p)
    \/ \E p \in Clients : Return(p)
    \/ \E d \in TickSteps : Tick(d)

Spec == Init /\ [][Next]_vars

NextFault ==
    \/ Next
    \/ \E p \in Clients : LookupFails(p)
    \/ \E p \in Clients : PopulateFails(p)
    \/ \E p \in Clients : clearCategoryCacheDelFails(p)

SpecFault == Init /\ [][NextFault]_vars

NextStore ==
    \/ \E k \in StoreKeys : StoreGet(k)
    \/ \E k \in StoreKeys, v \in StoreValues, ttl \in StoreTtls : StoreSet(k, v, ttl)
    \/ \E d \in StoreTickSteps : Tick(d)

SpecStore == Init /\ [][NextStore]_vars

NextValidate ==
    \/ \E p \in Clients, r \in ValidateRequests : Start(p, r)
    \/ \E p \in Clients : Lookup(p)
    \/ \E p \in Clients : Fetch(p)
    \/ \E p \in Clients : Fetch2(p)
    \/ \E p \in Clients : generateUniqueSlugStep(p)
    \/ \E p \in Clients : Populate(p)
    \/ \E p \in Clients : Check(p)
    \/ \E p \in Clients : Write(p)
    \/ \E p \in Clients : clearCategoryCache(p)
    \/ \E p \in Clients : Return(p)

SpecValidate == Init /\ [][NextValidate]_vars

\* two clients call the service at once
NextRace ==
    \/ \E p \in Procs, r \in RaceRequests : Start(p, r)
    \/ \E p \in Procs : Lookup(p)
    \/ \E p \in Procs : Fetch(p)
    \/ \E p \in Procs : Fetch2(p)
    \/ \E p \in Procs : Populate(p)
    \/ \E p \in Procs : Write(p)
    \/ \E p \in Procs : clearCategoryCache(p)
    \/ \E p \in Procs : Return(p)
    \/ \E d \in RaceTickSteps : Tick(d)

SpecRace == Init /\ [][NextRace]_vars

NextKafka ==
    \/ \E p \in Clients, r \in Requests : KafkaReceive(p, r)
    \/ \E p \in Clients, kind \in ReadKinds \cup MutationKinds : KafkaReceiveMalformed(p, kind)
    \/ \E p \in Clients : KafkaCall(p)
    \/ \E p \in Clients : Lookup(p)
    \/ \E p \in Clients : Fetch(p)
    \/ \E p \in Clients : Fetch2(p)
    \/ \E p \in Clients : generateUniqueSlugStep(p)
    \/ \E p \in Clients : Populate(p)
    \/ \E p \in Clients : Check(p)
    \/ \E p \in Clients : Write(p)
    \/ \E p \in Clients : clearCategoryCache(p)
    \/ \E p \in Clients : RepoFail(p)
    \/ \E p \in Clients : KafkaReply(p)

SpecKafka == Init /\ [][NextKafka]_vars

NextKey ==
    \/ \E baseKey \in KeyBases, params \in KeyParams : BuildKey(baseKey, params)
    \/ \E f \in UNION {Perms(n) : n \in 0..MaxParams} : BuildKeyAgain(f)

SpecKey == Init /\ [][NextKey]_vars

(***************************************************************************)
(* What the properties below read off a call.                              *)
(***************************************************************************)
Last(seq) == seq[Len(seq)]
RepoCallsMade(p) == SelectSeq(log[p], LAMBDA e : e.on = "repo")
CacheCallsMade(p, call) == SelectSeq(log[p], LAMBDA e : e.on = "cache" /\ e.call = call)
ReadDone(p) == pc[p] = "done" /\ op[p].kind \in ReadKinds
MutationDone(p) == pc[p] = "done" /\ op[p].kind \in MutationKinds
Populated(p) == CacheCallsMade(p, "set") # <<>>
FindOneKey(id, inc) == CacheKeyOf(Req("findOne", id, <<>>, "", inc, <<>>))
FindBySlugKey(slug, inc) == CacheKeyOf(Req("findBySlug", "", <<>>, slug, inc, <<>>))
Fresh(key) == key \in DOMAIN cacheManager /\ cacheManager[key].expiresAt > now

\* the repository calls a read operation makes on a miss, given what it returned
RECURSIVE Times(_, _)
Times(e, n) == IF n = 0 THEN <<>> ELSE <<e>> \o Times(e, n - 1)

Probes(r, res) ==
    IF res.slugAvailable THEN 0
    ELSE CHOOSE k \in 1..8 : res.suggestedSlug = r.slug \o "-" \o ToString(k)

ExpectedRepoCalls(r, res) ==
    CASE r.kind = "findOne" -> <<RepoCall("findById", TRUE)>>
      [] r.kind = "getStats" ->
            <<RepoCall("getStats", TRUE), RepoCall("getStatusBreakdown", TRUE),
              RepoCall("getGenderBreakdown", TRUE), RepoCall("getRecentlyCreated", TRUE),
              RepoCall("getRecentlyUpdated", TRUE)>>
      [] r.kind = "validateCategory" -> Times(RepoCall("exists", TRUE), 2 + Probes(r, res))
      [] OTHER -> <<RepoCall(r.kind, TRUE)>>

C1_MissShape ==
    \A p \in Procs :
        ReadDone(p) /\ ~IsError(result[p]) =>
            LET key == CacheKeyOf(op[p])
            IN \/ /\ log[p] = <<CacheCall("get", key, TRUE)>>
                  /\ result[p] # Undefined
               \/ /\ log[p] = <<CacheCall("get", key, TRUE)>>
                              \o ExpectedRepoCalls(op[p], result[p])
                              \o <<CacheCall("set", key, TRUE)>>
                  /\ key \in DOMAIN cacheManager
                  /\ cacheManager[key].value = result[p]

C1_HitStep ==
    \A p \in Procs :
        pc[p] = "get" /\ pc'[p] # "get" =>
            /\ log'[p] = <<CacheCall("get", local[p].key, TRUE)>>
            /\ cacheManager' = cacheManager
            /\ IF Fresh(local[p].key)
               THEN /\ pc'[p] = "done"
                    /\ result'[p] = cacheManager[local[p].key].value
               ELSE /\ pc'[p] = "fetch"
                    /\ local'[p].key = local[p].key

AccessorThrew(p) ==
    /\ ReadDone(p)
    /\ log[p] # <<>>
    /\ Last(log[p]).on = "repo"
    /\ ~Last(log[p]).ok

C2_ErrorNotCached ==
    \A p \in Procs :
        AccessorThrew(p) =>
            /\ IsError(result[p])
            /\ result[p].error \in {"NotFoundException", "MongoError"}
            /\ ~Populated(p)
            /\ CmGet(cacheManager, CacheKeyOf(op[p]), now) = Undefined

C2_MissStep ==
    \A p \in Procs :
        pc[p] = "get" /\ pc'[p] # "get" /\ ~Fresh(local[p].key) => pc'[p] = "fetch"

C2_NoNegativeCaching == [](C2_ErrorNotCached) /\ [][C2_MissStep]_vars

\* findOne of a category that is gone: NotFoundException after a miss
C2_Witness ==
    /\ AccessorThrew("p1")
    /\ op["p1"].kind = "findOne"
    /\ result["p1"] = Error("NotFoundException")

(***************************************************************************)
(* C3: CacheService.  After set(k, v, ttl), a get(k) made while            *)
(* now < time of set + ttl*1000 returns v; a get(k) made at or after that  *)
(* instant returns undefined and leaves no entry under k; and an entry     *)
(* leaves the map only by such a get.                                      *)
(***************************************************************************)
C3_GetAnswer ==
    last.call = "get" =>
        LET k == last.key
            live == /\ k \in DOMAIN written
                    /\ last.at < written[k].at + written[k].ttl * 1000
        IN /\ live => last.ret = StoreString(written[k].value) /\ k \in DOMAIN cache
           /\ ~live => last.ret = StoreUndefined /\ k \notin DOMAIN cache

C3_OnlyGetRemoves ==
    \A k \in DOMAIN cache :
        k \notin DOMAIN cache' =>
            /\ last'.call = "get"
            /\ last'.key = k
            /\ now >= cache[k].expiresAt

C3_TtlExpiry == [](C3_GetAnswer) /\ [][C3_OnlyGetRemoves]_vars

\* an entry set with a positive ttl was found expired by a get, which removed it
C3_Witness ==
    /\ last.call = "get"
    /\ last.key \in DOMAIN written
    /\ written[last.key].ttl > 0
    /\ last.ret = StoreUndefined
    /\ last.key \notin DOMAIN cache

(***************************************************************************)
(* C4: invalidation scope.  When clearCategoryCache(entityId?) completes,  *)
(* the store holds no entry under 'categories:all', 'categories:stats',    *)
(* 'categories:gender' and 'categories:with-subcategories', nor, when      *)
(* entityId is given, under 'categories:id:<entityId>'; every entry under  *)
(* another key is as it was.                                               *)
(***************************************************************************)
C4_Keys(entityId) ==
    {"categories:all", "categories:stats", "categories:gender",
     "categories:with-subcategories"}
    \cup (IF entityId # "" THEN {"categories:id:" \o entityId} ELSE {})

C4_ClearStep ==
    \A p \in Procs :
        pc[p] = "clear" /\ pc'[p] = "done" =>
            LET K == C4_Keys(ClearArg(op[p]))
            IN /\ \A k \in K : k \notin DOMAIN cacheManager'
               /\ \A k \in DOMAIN cacheManager \ K :
                      k \in DOMAIN cacheManager' /\ cacheManager'[k] = cacheManager[k]

C4_InvalidationScope == [][C4_ClearStep]_vars

\* a mutation of i1 has invalidated, and an entry under another key is still there
C4_Witness ==
    /\ MutationDone("p1")
    /\ op["p1"].id = "i1"
    /\ CacheCallsMade("p1", "clear") # <<>>
    /\ "categories:stats" \notin DOMAIN cacheManager
    /\ DOMAIN cacheManager # {}

(***************************************************************************)
(* C5, as stated: after update, remove, restore, hardDelete or             *)
(* updateStatus on a category id has completed successfully, the cache     *)
(* serves no entry that an earlier findOne(id) populated.                  *)
(***************************************************************************)
C5_DetailInvalidated ==
    \A p \in Procs :
        MutationDone(p) /\ op[p].kind \in IdMutationKinds /\ ~IsError(result[p]) =>
            \A inc \in {"false", "true"} :
                CmGet(cacheManager, FindOneKey(op[p].id, inc), now) = Undefined

(***************************************************************************)
(* C6: the slug gap.  No invalidation removes or changes an entry that     *)
(* findBySlug populated: after clearCategoryCache the entry is still       *)
(* there, and it is served for as long as it has not expired.              *)
(***************************************************************************)
SlugKeys == {FindBySlugKey(slug, inc) : slug \in {"men", "kids"}, inc \in {"false", "true"}}

C6_ClearStep ==
    \A p \in Procs :
        pc[p] = "clear" /\ pc'[p] = "done" =>
            \A k \in SlugKeys \cap DOMAIN cacheManager :
                k \in DOMAIN cacheManager' /\ cacheManager'[k] = cacheManager[k]

C6_StillServed ==
    \A p \in Procs :
        /\ MutationDone(p)
        /\ op[p].kind \in IdMutationKinds
        /\ ~IsError(result[p])
        => \A k \in SlugKeys :
               Fresh(k) => CmGet(cacheManager, k, now) = cacheManager[k].value

C6_SlugGap == [](C6_StillServed) /\ [][C6_ClearStep]_vars

\* findBySlug answers from the cache with the document as it was before a
\* mutation of that category
C6_Witness ==
    /\ ReadDone("p1")
    /\ op["p1"].kind = "findBySlug"
    /\ log["p1"] = <<CacheCall("get", FindBySlugKey("men", "false"), TRUE)>>
    /\ result["p1"].type = "category"
    /\ db["i1"].present
    /\ result["p1"].data # mapToResponseDto(WithId(db, "i1"))

(***************************************************************************)
(* C7: the mutation protocol.  A mutation makes no cache lookup and no     *)
(* cache population; it invalidates only after its repository write has    *)
(* succeeded and before it returns; when the write fails it invalidates    *)
(* nothing and the error reaches the caller.                               *)
(***************************************************************************)
C7_Shape ==
    \A p \in Procs :
        op[p].kind \in MutationKinds =>
            /\ CacheCallsMade(p, "get") = <<>>
            /\ CacheCallsMade(p, "set") = <<>>
            /\ pc[p] = "clear" => log[p] = <<RepoCall(RepoMethod(op[p]), TRUE)>>
            /\ pc[p] = "done" =>
                  \/ /\ result[p] = Error("BadRequestException")
                     /\ log[p] = <<>>
                  \/ /\ IsError(result[p])
                     /\ log[p] = <<RepoCall(RepoMethod(op[p]), FALSE)>>
                  \/ /\ ~IsError(result[p])
                     /\ log[p] = <<RepoCall(RepoMethod(op[p]), TRUE),
                                   CacheCall("clear", ClearArg(op[p]), TRUE)>>

C7_Step ==
    \A p \in Procs :
        op[p].kind \in MutationKinds /\ pc'[p] # pc[p] =>
            /\ pc[p] # "clear" => cacheManager' = cacheManager
            /\ pc[p] # "write" => db' = db

C7_MutationProtocol == [](C7_Shape) /\ [][C7_Step]_vars

\* a mutation whose repository write failed: it returned the error without clearing
C7_Witness ==
    /\ MutationDone("p1")
    /\ log["p1"] = <<RepoCall(RepoMethod(op["p1"]), FALSE)>>
    /\ IsError(result["p1"])
    /\ cacheManager # <<>>

(***************************************************************************)
(* C8: invalidation never throws.  When dels reject, the other keys are    *)
(* still deleted, the failure is not surfaced, and the mutation returns    *)
(* its normal result with its write in place.                              *)
(***************************************************************************)
FailedDels(p) == {e.arg : e \in Range(CacheCallsMade(p, "del"))}

C8_Settled ==
    \A p \in Procs :
        MutationDone(p) /\ CacheCallsMade(p, "clear") # <<>> =>
            /\ ~IsError(result[p])
            /\ \A k \in clearCategoryCacheKeys(ClearArg(op[p])) \ FailedDels(p) :
                   k \notin DOMAIN cacheManager

C8_ClearStep ==
    \A p \in Procs :
        pc[p] = "clear" /\ pc'[p] # "clear" =>
            /\ pc'[p] = "done"
            /\ db' = db
            /\ result'[p] = local[p].value
            /\ ~IsError(result'[p])

C8_InvalidationNeverThrows == [](C8_Settled) /\ [][C8_ClearStep]_vars

\* a del rejected, and the mutation still returned its result
C8_Witness ==
    /\ MutationDone("p1")
    /\ FailedDels("p1") # {}
    /\ ~IsError(result["p1"])
    /\ op["p1"].kind = "remove"
    /\ db["i1"].isDeleted

(***************************************************************************)
(* C9, as stated: when the cache lookup of a read operation raises an      *)
(* error, the operation falls through to the repository and returns its    *)
(* result; the cache error never reaches the caller.                       *)
(***************************************************************************)
C9_ReadFailureIsMiss ==
    \A p \in Procs :
        /\ ReadDone(p)
        /\ \E i \in 1..Len(log[p]) : log[p][i] = CacheCall("get", CacheKeyOf(op[p]), FALSE)
        => result[p] # Error("CacheError")

(***************************************************************************)
(* C10, as stated: when storing the result fails during read-through       *)
(* population, the failure is not propagated and the read operation        *)
(* returns the accessor's result.                                          *)
(***************************************************************************)
C10_WriteFailureSwallowed ==
    \A p \in Procs :
        /\ ReadDone(p)
        /\ \E i \in 1..Len(log[p]) : log[p][i] = CacheCall("set", CacheKeyOf(op[p]), FALSE)
        => ~IsError(result[p])

(***************************************************************************)
(* C11: conflict before any cache effect.  create of a category whose name *)
(* or generated slug is that of an existing non-deleted category ends with *)
(* a conflict error (or with the repository's own failure); no document is *)
(* written, no cache key is deleted and nothing is stored in the cache.    *)
(***************************************************************************)
C11_Conflicting(p) ==
    /\ op[p].kind = "create"
    /\ \E id \in Ids :
          /\ db[id].present
          /\ ~db[id].isDeleted
          /\ (db[id].name = op[p].name \/ db[id].slug = slugify(op[p].name))

C11_Step ==
    \A p \in Procs :
        C11_Conflicting(p) /\ pc[p] = "check" /\ pc'[p] # pc[p] =>
            /\ IsError(result'[p])
            /\ result'[p].error \in {"ConflictException", "MongoError"}
            /\ log'[p] = <<RepoCall("create", FALSE)>>
            /\ pc'[p] = "done"
            /\ db' = db
            /\ cacheManager' = cacheManager

C11_Done ==
    \A p \in Procs :
        MutationDone(p) /\ result[p] = Error("ConflictException") =>
            /\ log[p] = <<RepoCall(RepoMethod(op[p]), FALSE)>>
            /\ CacheCallsMade(p, "clear") = <<>>
            /\ CacheCallsMade(p, "set") = <<>>

C11_ConflictBeforeCache == [](C11_Done) /\ [][C11_Step]_vars

\* create of a name with the slug of an existing category: the conflict, with
\* the cache as it was
C11_Witness ==
    /\ MutationDone("p1")
    /\ op["p1"].kind = "create"
    /\ op["p1"].name = NameMenBang
    /\ result["p1"] = Error("ConflictException")
    /\ db["i2"] = NoDoc
    /\ cacheManager # <<>>

(***************************************************************************)
(* C12: the key builder's result.  generateCacheKey(baseKey, params) is    *)
(* baseKey when params is absent; otherwise prefix (if given), baseKey,    *)
(* 'name<sep>value' for each other parameter in insertion order whose      *)
(* value is neither null nor undefined, and suffix (if given), joined by   *)
(* the separator (':' by default).  ('categories:all', {page: 1,           *)
(* limit: 10}) gives 'categories:all:page:1:limit:10', the call repeated   *)
(* gives the same string, and page 2 gives another string.                 *)
(***************************************************************************)
C12_Named(bag, name) == \E i \in 1..Len(bag) : bag[i].name = name /\ TruthyParam(bag[i])

C12_Value(bag, name) == String(bag[CHOOSE i \in 1..Len(bag) : bag[i].name = name])

C12_Sep(bag) ==
    IF \E i \in 1..Len(bag) : bag[i].name = "separator"
    THEN C12_Value(bag, "separator") ELSE ":"

RECURSIVE C12_Pairs(_, _)
C12_Pairs(bag, sep) ==
    IF bag = <<>> THEN ""
    ELSE LET e == Head(bag)
             skipped == \/ e.name \in {"prefix", "suffix", "separator"}
                        \/ e.kind \in {"undef", "null"}
         IN (IF skipped THEN "" ELSE sep \o e.name \o sep \o String(e))
            \o C12_Pairs(Tail(bag), sep)

C12_Expected(baseKey, bag) ==
    LET sep == C12_Sep(bag)
    IN (IF C12_Named(bag, "prefix") THEN C12_Value(bag, "prefix") \o sep ELSE "")
       \o baseKey
       \o C12_Pairs(bag, sep)
       \o (IF C12_Named(bag, "suffix") THEN sep \o C12_Value(bag, "suffix") ELSE "")

C13_Kept(bag) ==
    SelectSeq(bag, LAMBDA e : /\ e.name \notin {"prefix", "suffix", "separator"}
                              /\ e.kind \notin {"undef", "null"})

\* the names and values of KeyEntries that contain ':'
C13_SeparatorFree(bag) ==
    C12_Sep(bag) = ":" => \A i \in 1..Len(bag) : bag[i].name \notin {"a", "a:a"}

C14_ValidateDone(p) ==
    /\ ReadDone(p)
    /\ op[p].kind = "validateCategory"
    /\ ~IsError(result[p])

C14_Conflict(p) == exists(db, op[p].name, "") \/ exists(db, <<>>, op[p].slug)

C15_NameHeld(name) ==
    \E id \in Ids : db[id].present /\ ~db[id].isDeleted /\ db[id].name = name

C15_SlugHeld(slug) ==
    \E id \in Ids : db[id].present /\ ~db[id].isDeleted /\ db[id].slug = slug

C15_Suffixed(slug, k) == slug \o "-" \o ToString(k)

C15_ValidateMiss ==
    \A p \in Procs :
        C14_ValidateDone(p) /\ op[p].id = "" /\ Populated(p) =>
            /\ result[p].nameAvailable = ~C15_NameHeld(op[p].name)
            /\ result[p].slugAvailable = ~C15_SlugHeld(op[p].slug)
            /\ result[p].slugAvailable => result[p].suggestedSlug = ""
            /\ ~result[p].slugAvailable =>
                  \E k \in 1..(Cardinality(Ids) + 1) :
                      /\ result[p].suggestedSlug = C15_Suffixed(op[p].slug, k)
                      /\ ~C15_SlugHeld(C15_Suffixed(op[p].slug, k))
                      /\ \A j \in 1..(k - 1) : C15_SlugHeld(C15_Suffixed(op[p].slug, j))

\* 'men' and 'men-1' are taken: the suggestion is 'men-2', and the name 'Kids' is free
C15_Witness ==
    /\ C14_ValidateDone("p1")
    /\ op["p1"].id = ""
    /\ Populated("p1")
    /\ op["p1"].name = NameKids
    /\ result["p1"].nameAvailable
    /\ ~result["p1"].slugAvailable
    /\ result["p1"].suggestedSlug = "men-2"

(***************************************************************************)
(* C16: the message-bus envelope.  Every handler of                        *)
(* CategoriesKafkaController returns {success: true, data, message} when   *)
(* the service call succeeded and {success: false, error, message} when it *)
(* threw; no handler lets an exception out; and the cache lookups,         *)
(* populations and invalidations made are those of the service method:     *)
(* the handler's own steps touch neither the cache nor the collection.     *)
(***************************************************************************)
C16_ServiceThrew(calls) == calls = <<>> \/ ~Last(calls).ok

C16_CallsOfService(r, calls, data) ==
    IF r.kind \in ReadKinds
    THEN \/ calls = <<CacheCall("get", CacheKeyOf(r), TRUE)>>
         \/ calls = <<CacheCall("get", CacheKeyOf(r), TRUE)>>
                    \o ExpectedRepoCalls(r, data)
                    \o <<CacheCall("set", CacheKeyOf(r), TRUE)>>
    ELSE calls = <<RepoCall(RepoMethod(r), TRUE), CacheCall("clear", ClearArg(r), TRUE)>>

C16_Reply ==
    \A p \in Procs :
        kafka[p].reply.sent =>
            /\ ~kafka[p].reply.thrown
            /\ LET e == kafka[p].reply.envelope
                   calls == kafka[p].calls
               IN /\ e.success = ~C16_ServiceThrew(calls)
                  /\ e.success =>
                        /\ DOMAIN e = {"success", "data", "message"}
                        /\ ~IsError(e.data)
                        /\ e.message = KafkaMessage(kafka[p].handler, TRUE)
                        /\ C16_CallsOfService(kafka[p].request, calls, e.data)
                  /\ ~e.success =>
                        /\ DOMAIN e = {"success", "error", "message"}
                        /\ e.error \in {"BadRequestException", "NotFoundException",
                                        "ConflictException", "MongoError", "TypeError"}
                        /\ e.message = KafkaMessage(kafka[p].handler, FALSE)
                        /\ \A i \in 1..Len(calls) :
                               calls[i].on = "cache" => calls[i].call = "get"

C16_HandlerStep ==
    \A p \in Procs :
        kafka'[p] # kafka[p] =>
            /\ cacheManager' = cacheManager
            /\ db' = db
            /\ kafka'[p].reply.sent => kafka'[p].calls = log[p]

C16_Envelope == [](C16_Reply) /\ [][C16_HandlerStep]_vars

\* findOneCategory for a category that is gone: the failure envelope, after the
\* lookup and the repository call of findOne
C16_Witness ==
    /\ kafka["p1"].handler = "findOne"
    /\ kafka["p1"].reply.sent
    /\ kafka["p1"].reply.envelope =
           [success |-> FALSE, error |-> "NotFoundException",
            message |-> "Failed to retrieve category"]
    /\ Len(kafka["p1"].calls) = 2

(***************************************************************************)
(* C17: TTL classes.  An entry populated by findAll, findByGender or       *)
(* findWithSubcategories is stored with a time to live of 300 seconds, by  *)
(* findOne or findBySlug with 600, by getStats with 900 and by             *)
(* validateCategory with 60; a read operation stores under its own key     *)
(* only, and with no other class's time to live.                           *)
(***************************************************************************)
C17_Seconds(kind) ==
    CASE kind \in {"findAll", "findByGender", "findWithSubcategories"} -> 300
      [] kind \in {"findOne", "findBySlug"} -> 600
      [] kind = "getStats" -> 900
      [] kind = "validateCategory" -> 60

C17_PopulateStep ==
    \A p \in Procs :
        op[p].kind \in ReadKinds /\ cacheManager' # cacheManager /\ pc'[p] # pc[p] =>
            LET key == CacheKeyOf(op[p])
            IN /\ pc[p] = "set"
               /\ key \in DOMAIN cacheManager'
               /\ cacheManager'[key].expiresAt = now + C17_Seconds(op[p].kind) * 1000
               /\ \A k \in DOMAIN cacheManager' \ {key} :
                      k \in DOMAIN cacheManager /\ cacheManager'[k] = cacheManager[k]

C17_TtlClasses == [][C17_PopulateStep]_vars

\* getStats has stored its result after the clock has moved: it expires 900 s later
C17_Witness ==
    /\ ReadDone("p1")
    /\ op["p1"].kind = "getStats"
    /\ Populated("p1")
    /\ now > 0
    /\ cacheManager["categories:stats"].expiresAt = now + 900000

(***************************************************************************)
(* C18: no coalescing of concurrent misses.  A read that has missed goes   *)
(* to the repository whatever another call has stored under its key in     *)
(* the meantime, and its populate overwrites whatever entry is there: of   *)
(* two calls that both missed, both call the repository, both write, and   *)
(* the entry left is the one written last.                                 *)
(***************************************************************************)
C18_Missed(p) == op[p].kind \in ReadKinds /\ pc[p] \in {"fetch", "fetch2", "suggest", "set"}

C18_MissStep ==
    \A p \in Procs :
        C18_Missed(p) /\ pc'[p] # pc[p] =>
            IF pc[p] = "set"
            THEN /\ pc'[p] = "done"
                 /\ result'[p] = local[p].value
                 /\ cacheManager' =
                        [k \in DOMAIN cacheManager \cup {local[p].key} |->
                            IF k = local[p].key
                            THEN [value |-> local[p].value,
                                  expiresAt |-> now + C17_Seconds(op[p].kind) * 1000]
                            ELSE cacheManager[k]]
            ELSE /\ cacheManager' = cacheManager
                 /\ pc'[p] \in {"fetch2", "suggest", "set"}
                 /\ Len(log'[p]) > Len(log[p])
                 /\ \A i \in (Len(log[p]) + 1)..Len(log'[p]) : log'[p][i].on = "repo"

C18_BothWrote ==
    \A p \in Procs :
        ReadDone(p) /\ Populated(p) =>
            log[p] = <<CacheCall("get", CacheKeyOf(op[p]), TRUE)>>
                     \o ExpectedRepoCalls(op[p], result[p])
                     \o <<CacheCall("set", CacheKeyOf(op[p]), TRUE)>>

C18_NoCoalescing == [](C18_BothWrote) /\ [][C18_MissStep]_vars

\* two calls of getStats both missed, both called the repository and both wrote;
\* the clock moved between the writes and the entry is the later one
C18_Witness ==
    /\ ReadDone("p1") /\ ReadDone("p2")
    /\ op["p1"].kind = "getStats" /\ op["p2"].kind = "getStats"
    /\ Populated("p1") /\ Populated("p2")
    /\ Len(RepoCallsMade("p1")) = 5 /\ Len(RepoCallsMade("p2")) = 5
    /\ now = 150000
    /\ cacheManager["categories:stats"].expiresAt = now + 900000

(***************************************************************************)
(* C19: bounded staleness.  A read that missed before a mutation and       *)
(* populates after the mutation's invalidation leaves the pre-mutation     *)
(* value in the cache; that value is served no longer than the time to     *)
(* live of its class after it was stored: an entry is never returned at or *)
(* after its expiresAt, no entry expires later than its class allows, and  *)
(* a hit leaves the entry and its expiry as they are.                      *)
(***************************************************************************)
C19_ClassOfKey(key) ==
    CASE key = "categories:with-subcategories" -> 300
      [] key = "categories:stats" -> 900

C19_ExpiryBound ==
    \A k \in DOMAIN cacheManager :
        cacheManager[k].expiresAt <= now + C19_ClassOfKey(k) * 1000

C19_LookupStep ==
    \A p \in Procs :
        pc[p] = "get" /\ pc'[p] # "get" =>
            /\ cacheManager' = cacheManager
            /\ pc'[p] = "done" =>
                  /\ local[p].key \in DOMAIN cacheManager
                  /\ now < cacheManager[local[p].key].expiresAt
                  /\ result'[p] = cacheManager[local[p].key].value

C19_ExpiryStep ==
    \A k \in DOMAIN cacheManager \cap DOMAIN cacheManager' :
        cacheManager'[k].expiresAt # cacheManager[k].expiresAt =>
            \E p \in Procs : /\ pc[p] = "set" /\ pc'[p] = "done"
                             /\ local[p].key = k
                             /\ cacheManager'[k].expiresAt = now + C19_ClassOfKey(k) * 1000

C19_BoundedStaleness ==
    [](C19_ExpiryBound) /\ [][C19_LookupStep /\ C19_ExpiryStep]_vars

\* update has set hasSubcategories and invalidated; a findWithSubcategories that
\* had read the collection before the write has then stored its empty list, and a
\* later call is served that list from the cache
C19_Witness ==
    /\ ReadDone("p1")
    /\ op["p1"].kind = "findWithSubcategories"
    /\ log["p1"] = <<CacheCall("get", "categories:with-subcategories", TRUE)>>
    /\ result["p1"] = [type |-> "list", data |-> <<>>]
    /\ db["i1"].hasSubcategories
    /\ now > 0
    /\ now < cacheManager["categories:with-subcategories"].expiresAt

(***************************************************************************)
(* C20, as stated: once a successful mutation has completed, the cache     *)
(* holds no entry that a family-wide read (findAll with any query,         *)
(* findByGender for any gender, findWithSubcategories, getStats) populated *)
(* before it.                                                              *)
(***************************************************************************)
C20_FamilyKinds == {"findAll", "findByGender", "findWithSubcategories", "getStats"}

C20_FamilyViewsFresh ==
    \A p \in Procs :
        MutationDone(p) /\ ~IsError(result[p]) =>
            \A r \in ReadRequests :
                r.kind \in C20_FamilyKinds =>
                    CmGet(cacheManager, CacheKeyOf(r), now) = Undefined

(***************************************************************************)
(* C21, as stated: a validateCategory(N, slug) call without excludeId that *)
(* returns while a category named N exists reports nameAvailable = false,  *)
(* also when the same call was made, and cached, before the category was   *)
(* created.  The client makes one call after the other, so the collection  *)
(* a finished call is compared with is the one the call ran against.       *)
(***************************************************************************)
C21_ValidationReflectsCreates ==
    \A p \in Clients :
        /\ ReadDone(p)
        /\ op[p].kind = "validateCategory"
        /\ op[p].id = ""
        /\ ~IsError(result[p])
        /\ exists(db, op[p].name, "")
        => ~result[p].nameAvailable

(***************************************************************************)
(* CacheInterceptor over CacheService, in front of the read routes of      *)
(* CategoriesController.  The route handler is the service method the      *)
(* controller method returns; the mutation routes carry no interceptor.    *)
(* A JSON text is the string JSON.stringify builds; the value JSON.parse   *)
(* gives back is represented by the text it was parsed from.               *)
(***************************************************************************)
\* reflector.get(name, handler): the metadata of the route, undefined when not annotated
NoAnnotation == [given |-> FALSE, s |-> "", n |-> 0]
KeyAnnotation(s) == [given |-> TRUE, s |-> s, n |-> 0]
TtlAnnotation(n) == [given |-> TRUE, s |-> "", n |-> n]

HttpCacheKeys == {NoAnnotation, KeyAnnotation(""), KeyAnnotation("categories")}
HttpCacheTtls == {NoAnnotation, TtlAnnotation(0), TtlAnnotation(60)}
HttpQueries == {<<>>, <<<<"page", "1">>>>}
HttpRoutes ==
    {Req("findByGender", "", <<>>, "", "men", <<>>),
     Req("findOne", "i2", <<>>, "", "false", <<>>)}
HttpMutations == {Req("updateStatus", "i1", <<>>, "", "inactive", <<>>)}
HttpTickSteps == {60000}

DefaultCacheTtl == 300

\* JSON.stringify of a string, a boolean, an array and an object
JsonString(s) == "\"" \o s \o "\""
JsonBoolean(b) == IF b THEN "true" ELSE "false"
JsonArray(texts) == "[" \o join(texts, ",") \o "]"
JsonObject(members) ==
    "{" \o join([i \in 1..Len(members) |->
                    JsonString(members[i][1]) \o ":" \o members[i][2]], ",") \o "}"

GenderOrder == <<"men", "women", "unisex">>

\* JSON.stringify(request.query): the query parameters, all strings
JsonOfQuery(query) ==
    JsonObject([i \in 1..Len(query) |-> <<query[i][1], JsonString(query[i][2])>>])

\* JSON.stringify of a CategoryResponseDto
JsonOfDto(dto) ==
    JsonObject(<<
        <<"_id", JsonString(dto._id)>>,
        <<"name", JsonString(Concat(dto.name))>>,
        <<"slug", JsonString(dto.slug)>>,
        <<"status", JsonString(dto.status)>>,
        <<"applicableGenders",
          JsonArray(SelectSeq([i \in 1..Len(GenderOrder) |->
                                  IF GenderOrder[i] \in dto.applicableGenders
                                  THEN JsonString(GenderOrder[i]) ELSE ""],
                              LAMBDA t : t # ""))>>,
        <<"hasSubcategories", JsonBoolean(dto.hasSubcategories)>>,
        <<"sortOrder", ToString(dto.sortOrder)>>,
        <<"isDeleted", JsonBoolean(dto.isDeleted)>>,
        <<"deletedAt", IF dto.deletedAt = Null THEN "null"
                       ELSE JsonString(ToString(dto.deletedAt))>>>>)

\* JSON.stringify of what a read route's handler returns
JSONstringify(data) ==
    IF data.type = "list"
    THEN JsonArray([i \in 1..Len(data.data) |-> JsonOfDto(data.data[i])])
    ELSE JsonOfDto(data.data)

JSONparse(text) == [type |-> "parsed", text |-> text]

cacheTtlOf_strict(annotation) ==
    IF annotation.given THEN annotation.n ELSE DefaultCacheTtl

\* reflector.get('cacheTtl', handler) || 300
cacheTtlOf(annotation) ==
    IF annotation.given /\ annotation.n # 0 THEN annotation.n ELSE DefaultCacheTtl

\* if (!cacheKey)
HasCacheKey(annotation) == annotation.given /\ annotation.s # ""

\* `${cacheKey}:${JSON.stringify(request.query)}`
fullCacheKey(cacheKey, query) == cacheKey \o ":" \o JsonOfQuery(query)

HttpIdle(p) == pc[p] = "idle" /\ http[p].phase \in {"none", "sent"}

\* intercept, up to return next.handle() or to await this.cacheService.get
HttpReceive(p, route, keyAnnotation, ttlAnnotation, query) ==
    /\ HttpIdle(p)
    /\ started < MaxRequests
    /\ http' = [http EXCEPT ![p] =
                   [phase |-> IF HasCacheKey(keyAnnotation) THEN "get" ELSE "handler",
                    route |-> route,
                    annotated |-> HasCacheKey(keyAnnotation),
                    ttlAnnotation |-> ttlAnnotation,
                    key |-> IF HasCacheKey(keyAnnotation)
                            THEN fullCacheKey(keyAnnotation.s, query) ELSE "",
                    cacheTtl |-> cacheTtlOf(ttlAnnotation),
                    startedBefore |-> started,
                    handlerCalls |-> 0,
                    storeCalls |-> 0,
                    response |-> Undefined]]
    /\ UNCHANGED <<svcVars, storeVars, now, ticks, util, kafka, guard>>

\* const cached = await this.cacheService.get(fullCacheKey);
\* if (cached) return of(JSON.parse(cached))
HttpGet(p) ==
    /\ http[p].phase = "get"
    /\ LET got == CacheServiceGet(cache, http[p].key, now)
           hit == got.ret.type = "string" /\ got.ret.s # ""
       IN /\ cache' = got.cache
          /\ last' = [call |-> "get", key |-> http[p].key, ret |-> got.ret, at |-> now]
          /\ http' = [http EXCEPT ![p].phase = IF hit THEN "sent" ELSE "handler",
                                  ![p].storeCalls = @ + 1,
                                  ![p].response =
                                      IF hit THEN JSONparse(got.ret.s) ELSE Undefined]
    /\ UNCHANGED <<svcVars, now, ticks, written, util, kafka, guard>>

\* next.handle(): the route handler calls the service method
HttpHandle(p) ==
    /\ http[p].phase = "handler"
    /\ Start(p, http[p].route)

\* the handler's observable emits (tap stores the response) or fails
HttpRespond(p) ==
    /\ http[p].phase = "handler"
    /\ pc[p] = "done"
    /\ LET data == result[p]
           stores == http[p].annotated /\ ~IsError(data)
           text == JSONstringify(data)
       IN /\ cache' = IF stores
                      THEN CacheServiceSet(cache, http[p].key, text, http[p].cacheTtl, now)
                      ELSE cache
          /\ last' = IF stores
                     THEN [call |-> "set", key |-> http[p].key, ret |-> StoreUndefined,
                           at |-> now]
                     ELSE last
          /\ written' = IF stores
                        THEN [k \in DOMAIN written \cup {http[p].key} |->
                                 IF k = http[p].key
                                 THEN [value |-> text, ttl |-> http[p].cacheTtl, at |-> now]
                                 ELSE written[k]]
                        ELSE written
          /\ http' = [http EXCEPT ![p].phase = "sent",
                                  ![p].handlerCalls = started - http[p].startedBefore,
                                  ![p].storeCalls = IF stores THEN @ + 1 ELSE @,
                                  ![p].response = data]
    /\ pc' = [pc EXCEPT ![p] = "idle"]
    /\ op' = [op EXCEPT ![p] = NoReq]
    /\ result' = [result EXCEPT ![p] = Undefined]
    /\ log' = [log EXCEPT ![p] = <<>>]
    /\ UNCHANGED <<db, cacheManager, now, ticks, local, started, util, kafka, guard>>

\* a request to a mutation route: no CacheInterceptor on it
HttpMutate(p, r) ==
    /\ HttpIdle(p)
    /\ Start(p, r)

\* the mutation route has answered
HttpReturn(p) ==
    /\ http[p].phase # "handler"
    /\ Return(p)

NextHttp ==
    \/ \E p \in Clients, route \in HttpRoutes, k \in HttpCacheKeys, t \in HttpCacheTtls,
          q \in HttpQueries : HttpReceive(p, route, k, t, q)
    \/ \E p \in Clients : HttpGet(p)
    \/ \E p \in Clients : HttpHandle(p)
    \/ \E p \in Clients : Lookup(p)
    \/ \E p \in Clients : Fetch(p)
    \/ \E p \in Clients : Populate(p)
    \/ \E p \in Clients : HttpRespond(p)
    \/ \E p \in Clients, r \in HttpMutations : HttpMutate(p, r)
    \/ \E p \in Clients : Write(p)
    \/ \E p \in Clients : clearCategoryCache(p)
    \/ \E p \in Clients : HttpReturn(p)
    \/ \E d \in HttpTickSteps : Tick(d)

SpecHttp == Init /\ [][NextHttp]_vars

(***************************************************************************)
(* C22: the two caches are independent.  No step of a mutation changes the *)
(* CacheService store, so an entry CacheInterceptor wrote before a         *)
(* mutation is still there after it; and a request that finds an unexpired *)
(* entry under its key is answered with that entry, whatever the           *)
(* collection holds by then.                                               *)
(***************************************************************************)
C22_MutationStep ==
    \A p \in Clients :
        (op[p].kind \in MutationKinds \/ op'[p].kind \in MutationKinds) => cache' = cache

C22_HitStep ==
    \A p \in Clients :
        /\ http[p].phase = "get"
        /\ http'[p] # http[p]
        /\ http[p].key \in DOMAIN cache
        /\ cache[http[p].key].expiresAt > now
        => /\ http'[p].phase = "sent"
           /\ http'[p].response = JSONparse(cache[http[p].key].value)
           /\ cache' = cache
           /\ UNCHANGED <<db, cacheManager, started>>

C22_IndependentCaches == [][C22_MutationStep /\ C22_HitStep]_vars

\* one read and one mutation have run; the request after the mutation is answered with
\* the list the interceptor stored before it, which still shows the category as active
C22_Witness ==
    /\ http["p1"].phase = "sent"
    /\ http["p1"].route.kind = "findByGender"
    /\ started = 2
    /\ db["i1"].status = "inactive"
    /\ http["p1"].response.type = "parsed"
    /\ http["p1"].response.text # "[]"
    /\ http["p1"].response = JSONparse(cache[http["p1"].key].value)

(***************************************************************************)
(* C23: CacheInterceptor.intercept.  Without a cacheKey annotation the     *)
(* handler is called and the store is neither read nor written.  With one, *)
(* an unexpired entry under '<cacheKey>:<JSON of the query>' is returned   *)
(* parsed and the handler is not called; on a miss the handler is called   *)
(* and its response is stored under that key with the time to live of the  *)
(* route; nothing is stored when the handler fails.  As stated, the time   *)
(* to live is the annotated one, or 300 seconds without an annotation.     *)
(***************************************************************************)
C23_Sent(p) == http[p].phase = "sent"

\* no cacheKey annotation: one handler call, no store call
C23_PassThrough ==
    \A p \in Clients :
        C23_Sent(p) /\ ~http[p].annotated =>
            /\ http[p].storeCalls = 0
            /\ http[p].key = ""
            /\ http[p].handlerCalls = 1
            /\ http[p].response.type # "parsed"

C23_PassThroughStep ==
    \A p \in Clients :
        http[p].phase = "handler" /\ ~http[p].annotated => UNCHANGED storeVars

\* the get of an annotated route: a hit answers from the entry, a miss goes to the handler
C23_GetStep ==
    \A p \in Clients :
        http[p].phase = "get" /\ http'[p] # http[p] =>
            LET key == http[p].key
            IN IF key \in DOMAIN cache /\ cache[key].expiresAt > now
               THEN /\ http'[p].phase = "sent"
                    /\ http'[p].response = JSONparse(cache[key].value)
                    /\ started' = started
                    /\ pc'[p] = "idle"
               ELSE /\ http'[p].phase = "handler"
                    /\ key \notin DOMAIN cache'

C23_Hit ==
    \A p \in Clients :
        C23_Sent(p) /\ http[p].response.type = "parsed" =>
            /\ http[p].annotated
            /\ http[p].handlerCalls = 0
            /\ http[p].storeCalls = 1

\* the handler failed: the get was the only store call and no entry is left under the key
C23_Failed ==
    \A p \in Clients :
        C23_Sent(p) /\ http[p].annotated /\ IsError(http[p].response) =>
            /\ http[p].handlerCalls = 1
            /\ http[p].storeCalls = 1
            /\ http[p].key \notin DOMAIN cache

\* a miss whose handler answered: the entry under the key, with the given time to live
C23_Stored(p, ttl) ==
    /\ http[p].handlerCalls = 1
    /\ http[p].storeCalls = 2
    /\ http[p].key \in DOMAIN cache
    /\ cache[http[p].key].value = JSONstringify(http[p].response)
    /\ written[http[p].key].ttl = ttl
    /\ cache[http[p].key].expiresAt = written[http[p].key].at + ttl * 1000

C23_Answered(p) ==
    /\ C23_Sent(p)
    /\ http[p].annotated
    /\ http[p].response.type \in {"list", "category"}

C23_KeyShape ==
    \A p \in Clients :
        C23_Sent(p) /\ http[p].annotated =>
            http[p].key \in {"categories:{}", "categories:{\"page\":\"1\"}"}

C23_Common ==
    /\ C23_PassThrough
    /\ C23_Hit
    /\ C23_Failed
    /\ C23_KeyShape

C23_AnnotatedTtl ==
    \A p \in Clients :
        C23_Answered(p) =>
            C23_Stored(p, IF http[p].ttlAnnotation.given THEN http[p].ttlAnnotation.n
                          ELSE 300)

C23_InterceptAsStated ==
    [](C23_Common /\ C23_AnnotatedTtl) /\ [][C23_PassThroughStep /\ C23_GetStep]_vars

(***************************************************************************)
(* C23, amended: the time to live of the stored response is the annotated  *)
(* one when it is not 0, and 300 seconds when there is no annotation or    *)
(* the annotation is 0.                                                    *)
(***************************************************************************)
C23_EffectiveTtl ==
    \A p \in Clients :
        C23_Answered(p) =>
            C23_Stored(p, IF http[p].ttlAnnotation.given /\ http[p].ttlAnnotation.n # 0
                          THEN http[p].ttlAnnotation.n
                          ELSE 300)

C23_Intercept ==
    [](C23_Common /\ C23_EffectiveTtl) /\ [][C23_PassThroughStep /\ C23_GetStep]_vars

\* a missed request to a route annotated with a time to live of 0: the list the handler
\* returned is stored for 300 seconds
C23_Witness ==
    /\ C23_Answered("p1")
    /\ http["p1"].ttlAnnotation = TtlAnnotation(0)
    /\ http["p1"].key = "categories:{\"page\":\"1\"}"
    /\ http["p1"].response.type = "list"
    /\ cache[http["p1"].key].expiresAt = now + 300000

(***************************************************************************)
(* C24: non-positive time to live.  set(k, v, ttl) with ttl <= 0 is        *)
(* accepted and leaves an entry that has already expired; every get(k)     *)
(* made while that set is the latest one for k returns undefined, and the  *)
(* map holds no entry under k after the first of them.                     *)
(***************************************************************************)
C24_NonPositive(k) == k \in DOMAIN written /\ written[k].ttl <= 0

\* the set is carried out: the entry is in the map, expiring at now + ttl * 1000 <= now
C24_SetAccepted ==
    last.call = "set" /\ C24_NonPositive(last.key) =>
        /\ last.ret = StoreUndefined
        /\ last.key \in DOMAIN cache
        /\ cache[last.key] = [value |-> written[last.key].value,
                              expiresAt |-> last.at + written[last.key].ttl * 1000]
        /\ cache[last.key].expiresAt <= now

C24_NeverServed ==
    last.call = "get" /\ C24_NonPositive(last.key) =>
        /\ last.ret = StoreUndefined
        /\ last.key \notin DOMAIN cache

\* between the set and the first get the entry stays; nothing but that get removes it
C24_GetStep ==
    \A k \in DOMAIN cache :
        C24_NonPositive(k) /\ cache[k].expiresAt = written[k].at + written[k].ttl * 1000 =>
            \/ k \in DOMAIN cache'
            \/ last'.call = "get" /\ last'.key = k /\ last'.ret = StoreUndefined

C24_NonPositiveTtl == [](C24_SetAccepted /\ C24_NeverServed) /\ [][C24_GetStep]_vars

\* set(k1, "v", 0) and, at the same instant, get(k1): undefined, and the entry is gone
C24_Witness ==
    /\ last = [call |-> "get", key |-> "k1", ret |-> StoreUndefined, at |-> now]
    /\ "k1" \in DOMAIN written
    /\ written["k1"] = [value |-> "v", ttl |-> 0, at |-> now]
    /\ "k1" \notin DOMAIN cache

(***************************************************************************)
(* CategoriesRepository called on its own: softDelete, restore and         *)
(* hardDelete on an id, create to fill the collection again, and the reads *)
(* findById, findBySlug and findAll.                                       *)
(***************************************************************************)
LifecycleMethods == {"remove", "restore", "hardDelete"}
RepoIds == {"i1", "i2", BadId}
RepoSlugs == {"men", "kids"}
RepoQueries == {QueryEmpty, QueryPage1}
RepoTickSteps == {1000}

\* softDelete(id), restore(id), hardDelete(id)
RepoLifecycle(method, id) ==
    /\ LET w == IF IsValidObjectId(id)
                THEN repoWrite(db, Req(method, id, <<>>, "", "", <<>>), now)
                ELSE [db |-> db, ok |-> FALSE, value |-> Error("NotFoundException")]
       IN /\ db' = w.db
          /\ util' = [call |-> "repository", method |-> method, id |-> id, before |-> db,
                      ok |-> w.ok,
                      ret |-> IF w.ok THEN Undefined ELSE w.value,
                      at |-> now]
    /\ UNCHANGED <<cacheManager, pc, op, local, result, log, started, storeVars, now, ticks,
                   kafka, webVars>>

\* create(dto)
RepoCreate(name) ==
    /\ FreeIds(db) # {}
    /\ LET w == repoWrite(db, Req("create", "", name, "", "", <<>>), now)
       IN /\ db' = w.db
          /\ util' = [call |-> "repository", method |-> "create", id |-> "", before |-> db,
                      ok |-> w.ok,
                      ret |-> IF w.ok THEN Undefined ELSE w.value,
                      at |-> now]
    /\ UNCHANGED <<cacheManager, pc, op, local, result, log, started, storeVars, now, ticks,
                   kafka, webVars>>

\* findById(id), findBySlug(slug), findAll(query): the records returned, or the error
RepoRead(method, id, slug, query) ==
    /\ LET ret == CASE method = "findById" -> repoFindById(db, id)
                    [] method = "findBySlug" -> repoFindBySlug(db, slug)
                    [] OTHER -> repoFindAllPage(db, query,
                                    Cardinality(repoFindAllFilter(db, query)))
       IN util' = [call |-> "repository", method |-> method, id |-> id, before |-> db,
                   ok |-> ~IsError(ret), ret |-> ret, at |-> now]
    /\ UNCHANGED <<svcVars, storeVars, now, ticks, kafka, webVars>>

NextRepo ==
    \/ \E method \in LifecycleMethods, id \in RepoIds : RepoLifecycle(method, id)
    \/ \E name \in {NameKids} : RepoCreate(name)
    \/ \E id \in RepoIds : RepoRead("findById", id, "", <<>>)
    \/ \E slug \in RepoSlugs : RepoRead("findBySlug", "", slug, <<>>)
    \/ \E query \in RepoQueries : RepoRead("findAll", "", "", query)
    \/ \E d \in RepoTickSteps : Tick(d)

SpecRepo == Init /\ [][NextRepo]_vars

(***************************************************************************)
(* C25: the soft-delete lifecycle.  softDelete succeeds exactly when the   *)
(* record exists with isDeleted = false, and sets isDeleted = true;        *)
(* restore succeeds exactly when it exists with isDeleted = true, and sets *)
(* isDeleted = false and deletedAt = null; hardDelete succeeds exactly     *)
(* when the record exists, and removes it; every other call throws         *)
(* NotFound and leaves the collection as it was; findById, findBySlug and  *)
(* findAll never return a record whose isDeleted is true.                  *)
(***************************************************************************)
C25_Exists(d, id) == id \in Ids /\ d[id].present

C25_Succeeds(d, method, id) ==
    /\ C25_Exists(d, id)
    /\ CASE method = "remove" -> ~d[id].isDeleted
         [] method = "restore" -> d[id].isDeleted
         [] OTHER -> TRUE

\* the last call was a lifecycle call: its outcome and the collection after it
C25_Lifecycle ==
    util.call = "repository" /\ util.method \in LifecycleMethods /\ util.at = now
    /\ db # util.before =>
        /\ util.ok
        /\ C25_Succeeds(util.before, util.method, util.id)
        /\ \A id \in Ids \ {util.id} : db[id] = util.before[id]
        /\ CASE util.method = "remove" ->
                  db[util.id] = [util.before[util.id] EXCEPT !.isDeleted = TRUE,
                                                             !.deletedAt = util.at]
             [] util.method = "restore" ->
                  db[util.id] = [util.before[util.id] EXCEPT !.isDeleted = FALSE,
                                                             !.deletedAt = Null]
             [] OTHER -> ~db[util.id].present

C25_LifecycleStep ==
    util' # util /\ util'.call = "repository" /\ util'.method \in LifecycleMethods =>
        /\ util'.before = db
        /\ util'.ok = C25_Succeeds(db, util'.method, util'.id)
        /\ util'.ok => db' # db
        /\ ~util'.ok => db' = db /\ util'.ret = Error("NotFoundException")

C25_Returned ==
    IF util.call # "repository" \/ ~util.ok THEN {}
    ELSE CASE util.method \in {"findById", "findBySlug"} -> {util.ret.data}
           [] util.method = "findAll" -> Range(util.ret.data)
           [] OTHER -> {}

C25_ReadsSkipDeleted ==
    /\ \A x \in C25_Returned : ~x.doc.isDeleted /\ util.before[x._id] = x.doc
    /\ util.call = "repository" /\ util.method = "findById" =>
           util.ok = (C25_Exists(util.before, util.id) /\ ~util.before[util.id].isDeleted)
    /\ util.call = "repository" /\ util.method \in {"findById", "findBySlug"} /\ ~util.ok =>
           util.ret = Error("NotFoundException")

MaxClock == 1500

NoRateLimit == [given |-> FALSE, limit |-> 0, windowMs |-> 0]
RateLimit(limit, windowMs) == [given |-> TRUE, limit |-> limit, windowMs |-> windowMs]

\* the routes: request.url and the rateLimit metadata of its handler
GuardRoutes ==
    {[url |-> "/categories", rateLimit |-> RateLimit(1, 1000)],
     [url |-> "/categories/stats", rateLimit |-> RateLimit(2, 1000)],
     [url |-> "/health", rateLimit |-> NoRateLimit]}

\* request.ip and request.connection.remoteAddress
GuardClients == {[ip |-> "", remoteAddress |-> "10.0.0.1"],
                 [ip |-> "10.0.0.1", remoteAddress |-> "10.0.0.1"]}
GuardTickSteps == {500}

\* `rate_limit:${clientIp}:${request.url}`
rateLimitKey(client, url) ==
    "rate_limit:" \o (IF client.ip # "" THEN client.ip ELSE client.remoteAddress)
                  \o ":" \o url

\* parseInt of the decimal string of a small count
parseInt(s) == CHOOSE n \in 0..9 : ToString(n) = s

\* current ? parseInt(current) : 0
currentCountOf(current) ==
    IF current.type = "string" /\ current.s # "" THEN parseInt(current.s) ELSE 0

NoKeyStats == [limit |-> 0, windowMs |-> 0, chain |-> 0,
               lastAdmittedAt |-> -1, prevAdmittedAt |-> -1, lastRejectedAt |-> -1]
KeyStats(key) == IF key \in DOMAIN guard.keys THEN guard.keys[key] ELSE NoKeyStats

GuardIdle(p) == guard.call[p].phase \in {"none", "passed", "admitted", "rejected"}

\* canActivate is called: without rateLimit metadata it returns true; with it, it builds
\* the key and calls cacheService.get
GuardCall(p, route, client) ==
    /\ GuardIdle(p)
    /\ \A q \in Procs : SlotIndex(q) < SlotIndex(p) => guard.call[q].phase # "none"
    /\ started < MaxRequests
    /\ started' = started + 1
    /\ IF ~route.rateLimit.given
       THEN /\ guard' = [guard EXCEPT !.call[p] = [phase |-> "passed", key |-> "",
                                                   rateLimit |-> route.rateLimit,
                                                   current |-> StoreUndefined,
                                                   arrivedAt |-> now]]
            /\ UNCHANGED storeVars
       ELSE LET key == rateLimitKey(client, route.url)
                got == CacheServiceGet(cache, key, now)
            IN /\ cache' = got.cache
               /\ last' = [call |-> "get", key |-> key, ret |-> got.ret, at |-> now]
               /\ guard' = [guard EXCEPT !.call[p] = [phase |-> "await", key |-> key,
                                                      rateLimit |-> route.rateLimit,
                                                      current |-> got.ret,
                                                      arrivedAt |-> now]]
               /\ UNCHANGED written
    /\ UNCHANGED <<db, cacheManager, pc, op, local, result, log, now, ticks, util, kafka,
                   http>>

\* the record of an admission and of a rejection, per key: the admissions in a row that
\* each arrived less than windowMs after the admission before, and the latest times
Admitted(key, rateLimit, arrivedAt) ==
    LET st == KeyStats(key)
        inChain == st.lastAdmittedAt >= 0 /\ arrivedAt < st.lastAdmittedAt + rateLimit.windowMs
    IN [k \in DOMAIN guard.keys \cup {key} |->
           IF k = key
           THEN [limit |-> rateLimit.limit, windowMs |-> rateLimit.windowMs,
                 chain |-> IF inChain THEN st.chain + 1 ELSE 1,
                 lastAdmittedAt |-> now, prevAdmittedAt |-> st.lastAdmittedAt,
                 lastRejectedAt |-> st.lastRejectedAt]
           ELSE guard.keys[k]]

Rejected(key, rateLimit) ==
    [k \in DOMAIN guard.keys \cup {key} |->
        IF k = key
        THEN [KeyStats(key) EXCEPT !.limit = rateLimit.limit,
                                   !.windowMs = rateLimit.windowMs,
                                   !.lastRejectedAt = now]
        ELSE guard.keys[k]]

GuardResume_offByOne(p) ==
    /\ guard.call[p].phase = "await"
    /\ LET c == guard.call[p]
           currentCount == currentCountOf(c.current)
       IN IF currentCount > c.rateLimit.limit
          THEN /\ guard' = [guard EXCEPT !.call[p].phase = "rejected",
                                         !.keys = Rejected(c.key, c.rateLimit)]
               /\ UNCHANGED storeVars
          ELSE /\ cache' = CacheServiceSet(cache, c.key, ToString(currentCount + 1),
                                           c.rateLimit.windowMs \div 1000, now)
               /\ last' = [call |-> "set", key |-> c.key, ret |-> StoreUndefined, at |-> now]
               /\ written' = [k \in DOMAIN written \cup {c.key} |->
                                 IF k = c.key
                                 THEN [value |-> ToString(currentCount + 1),
                                       ttl |-> c.rateLimit.windowMs \div 1000, at |-> now]
                                 ELSE written[k]]
               /\ guard' = [guard EXCEPT !.call[p].phase = "admitted",
                                         !.keys = Admitted(c.key, c.rateLimit, c.arrivedAt)]
    /\ UNCHANGED <<svcVars, now, ticks, util, kafka, http>>

GuardResume_rejectRefreshes(p) ==
    /\ guard.call[p].phase = "await"
    /\ LET c == guard.call[p]
           currentCount == currentCountOf(c.current)
           rejects == currentCount >= c.rateLimit.limit
           value == ToString(IF rejects THEN currentCount ELSE currentCount + 1)
       IN /\ cache' = CacheServiceSet(cache, c.key, value, c.rateLimit.windowMs \div 1000, now)
          /\ last' = [call |-> "set", key |-> c.key, ret |-> StoreUndefined, at |-> now]
          /\ written' = [k \in DOMAIN written \cup {c.key} |->
                            IF k = c.key
                            THEN [value |-> value, ttl |-> c.rateLimit.windowMs \div 1000,
                                  at |-> now]
                            ELSE written[k]]
          /\ guard' = [guard EXCEPT !.call[p].phase = IF rejects THEN "rejected"
                                                      ELSE "admitted",
                                    !.keys = IF rejects THEN Rejected(c.key, c.rateLimit)
                                             ELSE Admitted(c.key, c.rateLimit, c.arrivedAt)]
    /\ UNCHANGED <<svcVars, now, ticks, util, kafka, http>>

\* the get has resolved: the count is compared with the limit; the call throws 429, or
\* it calls cacheService.set with the count plus one and returns true
GuardResume(p) ==
    /\ guard.call[p].phase = "await"
    /\ LET c == guard.call[p]
           currentCount == currentCountOf(c.current)
       IN IF currentCount >= c.rateLimit.limit
          THEN /\ guard' = [guard EXCEPT !.call[p].phase = "rejected",
                                         !.keys = Rejected(c.key, c.rateLimit)]
               /\ UNCHANGED storeVars
          ELSE /\ cache' = CacheServiceSet(cache, c.key, ToString(currentCount + 1),
                                           c.rateLimit.windowMs \div 1000, now)
               /\ last' = [call |-> "set", key |-> c.key, ret |-> StoreUndefined, at |-> now]
               /\ written' = [k \in DOMAIN written \cup {c.key} |->
                                 IF k = c.key
                                 THEN [value |-> ToString(currentCount + 1),
                                       ttl |-> c.rateLimit.windowMs \div 1000, at |-> now]
                                 ELSE written[k]]
               /\ guard' = [guard EXCEPT !.call[p].phase = "admitted",
                                         !.keys = Admitted(c.key, c.rateLimit, c.arrivedAt)]
    /\ UNCHANGED <<svcVars, now, ticks, util, kafka, http>>

\* the clock moves on
GuardTick(d) ==
    /\ now + d <= MaxClock
    /\ now' = now + d
    /\ UNCHANGED <<svcVars, storeVars, ticks, auxVars>>

\* one client, one call after the other
NextGuard ==
    \/ \E p \in Clients, route \in GuardRoutes, client \in GuardClients :
          GuardCall(p, route, client)
    \/ \E p \in Clients : GuardResume(p)
    \/ \E d \in GuardTickSteps : GuardTick(d)

SpecGuard == Init /\ [][NextGuard]_vars

\* calls that overlap: each may be suspended at its await while others run
NextGuardRace ==
    \/ \E p \in Procs, route \in GuardRoutes, client \in GuardClients :
          GuardCall(p, route, client)
    \/ \E p \in Procs : GuardResume(p)
    \/ \E d \in GuardTickSteps : GuardTick(d)

SpecGuardRace == Init /\ [][NextGuardRace]_vars

(***************************************************************************)
(* C26: the rate limit over calls made one after the other.  In a row of   *)
(* calls for one key in which each arrives less than windowMs after the    *)
(* admission before it, at most `limit` are admitted and every further one *)
(* is rejected with 429; the stored count is the number admitted in the    *)
(* row; a rejected call leaves the counter and its expiry as they were.    *)
(***************************************************************************)
C26_ChainBound ==
    \A k \in DOMAIN guard.keys :
        /\ guard.keys[k].chain <= guard.keys[k].limit
        /\ k \in DOMAIN cache => parseInt(cache[k].value) = guard.keys[k].chain

C26_InRow(c) ==
    /\ KeyStats(c.key).lastAdmittedAt >= 0
    /\ c.arrivedAt < KeyStats(c.key).lastAdmittedAt + c.rateLimit.windowMs

C26_ResumeStep ==
    \A p \in Clients :
        guard.call[p].phase = "await" /\ guard'.call[p].phase # "await" =>
            LET c == guard.call[p]
            IN /\ C26_InRow(c) /\ KeyStats(c.key).chain >= c.rateLimit.limit =>
                      guard'.call[p].phase = "rejected"
               /\ guard'.call[p].phase = "rejected" =>
                      /\ cache' = cache
                      /\ written' = written
                      /\ guard'.keys[c.key].chain = KeyStats(c.key).chain
               /\ guard'.call[p].phase = "admitted" =>
                      /\ cache'[c.key].expiresAt = now + c.rateLimit.windowMs
                      /\ \A k \in DOMAIN cache \ {c.key} : cache'[k] = cache[k]

C26_SequentialBound == [](C26_ChainBound) /\ [][C26_ResumeStep]_vars

\* limit 2: two calls admitted, the third, half a window later, rejected
C26_Witness ==
    /\ guard.call["p1"].phase = "rejected"
    /\ guard.call["p1"].rateLimit.limit = 2
    /\ guard.call["p1"].arrivedAt = 500
    /\ KeyStats(guard.call["p1"].key).chain = 2
    /\ KeyStats(guard.call["p1"].key).lastRejectedAt = 500
    /\ cache[guard.call["p1"].key] = [value |-> "2", expiresAt |-> 1000]

(***************************************************************************)
(* C27, as stated: also when canActivate calls for one key overlap, each   *)
(* suspended at its await between reading the count and writing it back,   *)
(* no more than `limit` of a row are admitted, and the stored count is the *)
(* number admitted (no increment is lost).                                 *)
(***************************************************************************)
C27_AdmittedInRow(k) == guard.keys[k].chain

C27_InterleavedBound ==
    \A k \in DOMAIN guard.keys :
        /\ C27_AdmittedInRow(k) <= guard.keys[k].limit
        /\ k \in DOMAIN cache /\ guard.keys[k].lastAdmittedAt >= 0 =>
               parseInt(cache[k].value) = C27_AdmittedInRow(k)

(***************************************************************************)
(* C28: recovery.  A call that arrives at least windowMs after the last    *)
(* admission for its key is admitted (the limit being at least 1) and the  *)
(* count restarts at 1; a rejected call leaves the entry, and so its       *)
(* expiry, unchanged; an admitted call sets the expiry to windowMs from    *)
(* its own time.                                                           *)
(***************************************************************************)
C28_ResumeStep ==
    \A p \in Clients :
        guard.call[p].phase = "await" /\ guard'.call[p].phase # "await" =>
            LET c == guard.call[p]
                st == KeyStats(c.key)
            IN /\ /\ st.lastAdmittedAt >= 0
                  /\ c.arrivedAt >= st.lastAdmittedAt + c.rateLimit.windowMs
                  /\ c.rateLimit.limit >= 1
                  => /\ guard'.call[p].phase = "admitted"
                     /\ cache'[c.key] = [value |-> "1",
                                         expiresAt |-> now + c.rateLimit.windowMs]
               /\ guard'.call[p].phase = "rejected" =>
                     /\ c.key \in DOMAIN cache
                     /\ cache'[c.key] = cache[c.key]
                     /\ cache[c.key].expiresAt = st.lastAdmittedAt + c.rateLimit.windowMs
               /\ guard'.call[p].phase = "admitted" =>
                     cache'[c.key].expiresAt = now + c.rateLimit.windowMs

\* while the entry of the last admission has not expired, the key stays blocked at its
\* limit until lastAdmittedAt + windowMs, whatever was rejected in between
C28_BlockedUntil ==
    \A k \in DOMAIN cache :
        k \in DOMAIN guard.keys /\ guard.keys[k].lastAdmittedAt >= 0 =>
            cache[k].expiresAt = guard.keys[k].lastAdmittedAt + guard.keys[k].windowMs

C28_Recovery == [](C28_BlockedUntil) /\ [][C28_ResumeStep]_vars

\* limit 1: admitted at 0, rejected at 500, admitted again at 1000 with the count at 1
C28_Witness ==
    /\ guard.call["p1"].phase = "admitted"
    /\ guard.call["p1"].rateLimit.limit = 1
    /\ guard.call["p1"].arrivedAt = 1000
    /\ KeyStats(guard.call["p1"].key).prevAdmittedAt = 0
    /\ KeyStats(guard.call["p1"].key).lastRejectedAt = 500
    /\ KeyStats(guard.call["p1"].key).lastAdmittedAt = 1000
    /\ cache[guard.call["p1"].key] = [value |-> "1", expiresAt |-> 2000]

(***************************************************************************)
(* The utility generateUniqueSlug(baseSlug, existingSlugs, maxAttempts) of *)
(* slug.util.ts, called on its own.  existingSlugs is read with includes   *)
(* only and is given as a set.                                             *)
(***************************************************************************)
MaxAttempts == 3

SlugBases == {"men", "kids"}
Suffixed(baseSlug, counter) == baseSlug \o "-" \o ToString(counter)
SlugPool(baseSlug) == {baseSlug} \cup {Suffixed(baseSlug, k) : k \in 1..MaxAttempts}

\* the while loop: slug, counter and attempts after it
RECURSIVE generateUniqueSlugLoop(_, _, _, _, _, _)
generateUniqueSlugLoop(baseSlug, existingSlugs, maxAttempts, slug, counter, attempts) ==
    IF slug \in existingSlugs /\ attempts < maxAttempts
    THEN generateUniqueSlugLoop(baseSlug, existingSlugs, maxAttempts,
                                Suffixed(baseSlug, counter), counter + 1, attempts + 1)
    ELSE [slug |-> slug, counter |-> counter, attempts |-> attempts]

\* the slug returned, and whether it is the timestamp fallback
generateUniqueSlug(baseSlug, existingSlugs, maxAttempts, t) ==
    LET end == generateUniqueSlugLoop(baseSlug, existingSlugs, maxAttempts, baseSlug, 1, 0)
    IN IF end.attempts >= maxAttempts
       THEN [slug |-> Suffixed(baseSlug, t), fallback |-> TRUE]
       ELSE [slug |-> end.slug, fallback |-> FALSE]

CallGenerateUniqueSlug(baseSlug, existingSlugs, maxAttempts) ==
    /\ util' = [call |-> "generateUniqueSlug", baseSlug |-> baseSlug,
                existingSlugs |-> existingSlugs, maxAttempts |-> maxAttempts,
                ret |-> generateUniqueSlug(baseSlug, existingSlugs, maxAttempts, now),
                at |-> now]
    /\ UNCHANGED <<svcVars, storeVars, now, ticks, kafka, webVars>>

NextSlug ==
    \/ \E baseSlug \in SlugBases, maxAttempts \in 0..MaxAttempts :
          \E existingSlugs \in SUBSET SlugPool(baseSlug) :
              CallGenerateUniqueSlug(baseSlug, existingSlugs, maxAttempts)
    \/ \E d \in TickSteps : Tick(d)

SpecSlug == Init /\ [][NextSlug]_vars

(***************************************************************************)
(* C29, as stated: the utility returns baseSlug when it is not in          *)
(* existingSlugs; otherwise baseSlug-k for the smallest k in               *)
(* 1..maxAttempts with baseSlug-k not in existingSlugs; and the timestamp  *)
(* fallback only when baseSlug and every baseSlug-1 .. baseSlug-maxAttempts *)
(* are in existingSlugs.                                                   *)
(***************************************************************************)
C29_FreeSuffixes(u) ==
    {k \in 1..u.maxAttempts : Suffixed(u.baseSlug, k) \notin u.existingSlugs}

C29_Expected(u) ==
    IF u.baseSlug \notin u.existingSlugs
    THEN [slug |-> u.baseSlug, fallback |-> FALSE]
    ELSE IF C29_FreeSuffixes(u) # {}
    THEN [slug |-> Suffixed(u.baseSlug,
                            CHOOSE k \in C29_FreeSuffixes(u) :
                                \A j \in C29_FreeSuffixes(u) : k <= j),
          fallback |-> FALSE]
    ELSE [slug |-> Suffixed(u.baseSlug, u.at), fallback |-> TRUE]

C29_UtilitySlug ==
    util.call = "generateUniqueSlug" => util.ret = C29_Expected(util)

(***************************************************************************)
(* validateCategory with every awaited repository call resolving: a call   *)
(* suspended in generateUniqueSlug at                                      *)
(* await this.categoriesRepository.exists('', uniqueSlug) is resumed.      *)
(***************************************************************************)
SpecValidateFair ==
    SpecValidate /\ \A p \in Clients : WF_vars(generateUniqueSlugStep(p))

(***************************************************************************)
(* C30: termination of CategoriesService.generateUniqueSlug.  With the     *)
(* collection not changing during the call, the loop ends; it has then     *)
(* made exactly k existence checks, slug-k being the first suffixed slug   *)
(* that no live record has, and it returns slug-k, which does not exist.   *)
(***************************************************************************)
C30_Taken(slug, k) == exists(db, <<>>, Suffixed(slug, k))

\* the first free suffix: at most one more than the number of records
C30_FirstFree(slug) ==
    CHOOSE k \in 1..(Cardinality(Ids) + 1) :
        ~C30_Taken(slug, k) /\ \A j \in 1..(k - 1) : C30_Taken(slug, j)

C30_Checks(p) == Len(SelectSeq(log[p], LAMBDA e : e.on = "repo" /\ e.call = "exists"))

\* in the loop: every suffix below the counter is taken, one check made for each
C30_InLoop ==
    \A p \in Clients :
        pc[p] = "suggest" =>
            /\ local[p].counter <= C30_FirstFree(op[p].slug)
            /\ \A j \in 1..(local[p].counter - 1) : C30_Taken(op[p].slug, j)
            /\ C30_Checks(p) = 2 + (local[p].counter - 1)

\* out of the loop: k checks were made in it, and slug-k is returned and is free
C30_Returned ==
    \A p \in Clients :
        /\ pc[p] = "set"
        /\ op[p].kind = "validateCategory"
        /\ ~local[p].value.slugAvailable
        => LET k == C30_FirstFree(op[p].slug)
           IN /\ local[p].value.suggestedSlug = Suffixed(op[p].slug, k)
              /\ ~C30_Taken(op[p].slug, k)
              /\ C30_Checks(p) = 2 + k

C30_Ends == \A p \in Clients : (pc[p] = "suggest") ~> (pc[p] = "set")

C30_Termination == [](C30_InLoop /\ C30_Returned) /\ C30_Ends

\* 'men' and 'men-1' are taken: two checks in the loop, and 'men-2' is suggested
C30_Witness ==
    /\ ReadDone("p1")
    /\ op["p1"].kind = "validateCategory"
    /\ op["p1"].slug = "men"
    /\ ~IsError(result["p1"])
    /\ result["p1"].suggestedSlug = "men-2"
    /\ C30_Checks("p1") = 4
    /\ C30_Taken("men", 1)
    /\ ~C30_Taken("men", 2)

============================================================================
